---- MODULE Spec2Model ----
(***************************************************************************)
(* D-LiFi-Proto: the mesh protocol engine of the street-lamp firmware      *)
(* (src/structure/v3/upg) and of the HQ firmware (src/src/hq/arduino).     *)
(*                                                                         *)
(* Strings are sequences of one-character strings, so that substring,      *)
(* length, toInt, strtol and sprintf are computed as the firmware computes *)
(* them.  A node (lamp or HQ) is a record; every firmware function is an   *)
(* operator from a node record to the node record after the call.  The     *)
(* fields tx, lifi, calls and host are logs of what the current handler    *)
(* did (transmissions, lifiTransmit calls, isNew calls, host lines); each  *)
(* handler starts with empty logs.                                         *)
(***************************************************************************)
EXTENDS Integers, Sequences, FiniteSets, TLC

VARIABLES
  role,     \* which firmware this run executes: "lamp", "hq", "cache", ...
  lamp,     \* the lamp's globals (config.h:194-202) and the handler logs
  hq,       \* the HQ's globals (hq config.h:81-82) and the handler logs
  op,       \* the handler that ran last and its arguments
  net       \* the nodes of a mesh and the packets on their way between them

vars == <<role, lamp, hq, op, net>>

---------------------------------------------------------------------------
(* Program constants *)

CACHE_SIZE == 3
HQ_CACHE_SIZE == 8
RETRANSMIT_COUNT == 2
RETRANSMIT_INTERVAL == 10000
REDUNDANCY_WINDOW == 60000
RETRANSMIT_QUEUE_SIZE == 3
GRADIENT_TOLERANCE == 1
INITIAL_HOP == 99
HQ_HOP == 0
IR_DIRECTION_GAP == 100
IR_CHAR_GAP == 100
IR_SEGMENT_GAP == 50
LIFI_PULSE == 100
IR_MESSAGE_TIMEOUT == 3000
TIMEOUT == 2000
HEADER_LENGTH_INIT == 9
HEADER_LENGTH_STANDARD == 13
HEADER_LENGTH_SOS == 11
HEADER_LENGTH_MESSAGE == 15

NODE_ID == <<"1", "0", "2", "a">>
HQ_ID == <<"0", "0", "0", "h">>
BROADCAST_ID == <<"F", "F", "F", "F">>
MSG_TYPE_INIT == "0"
MSG_TYPE_BROADCAST == "1"
MSG_TYPE_TARGETED == "2"
MSG_TYPE_SOS == "3"
MSG_TYPE_MESSAGE == "4"

\* A source test that takes every source for HQ.
IsFromAnyone(src) == TRUE

IS_FROM_HQ(src) == src = HQ_ID

---------------------------------------------------------------------------
(* Fixed-width integers.  millis() is a 32-bit counter of milliseconds; the   *)
(* runs explored here stay below MaxTime, far from its wrap at 2^32, and the *)
(* firmware only ever subtracts an earlier reading from a later one.         *)

U8(n) == n % 256
U16(n) == n % 65536

---------------------------------------------------------------------------
(* Arduino String and libc conversions, as called by the firmware *)

Min(a, b) == IF a < b THEN a ELSE b

\* String::substring(from, to): characters from..to-1, to clamped to length.
Substring(s, from, to) ==
  IF from >= Len(s) THEN <<>> ELSE SubSeq(s, from + 1, Min(to, Len(s)))

\* header[i], zero based.
CharAt(s, i) == s[i + 1]

DecDigits == <<"0", "1", "2", "3", "4", "5", "6", "7", "8", "9">>
HexDigits == <<"0", "1", "2", "3", "4", "5", "6", "7", "8", "9",
               "A", "B", "C", "D", "E", "F">>
HexLower == <<"0", "1", "2", "3", "4", "5", "6", "7", "8", "9",
              "a", "b", "c", "d", "e", "f">>

IsDec(c) == \E i \in 1..Len(DecDigits) : DecDigits[i] = c
DecVal(c) == (CHOOSE i \in 1..Len(DecDigits) : DecDigits[i] = c) - 1
IsHex(c) == \E i \in 1..Len(HexDigits) : HexDigits[i] = c \/ HexLower[i] = c
HexVal(c) ==
  (CHOOSE i \in 1..Len(HexDigits) : HexDigits[i] = c \/ HexLower[i] = c) - 1

\* String::toInt() is atol: the value of the leading decimal digits, 0 if none.
\* (The headers of this model hold no sign and no blank.)
RECURSIVE AtolFrom(_, _, _)
AtolFrom(s, i, acc) ==
  IF i > Len(s) \/ ~IsDec(s[i]) THEN acc
  ELSE AtolFrom(s, i + 1, acc * 10 + DecVal(s[i]))

toInt(s) == AtolFrom(s, 1, 0)

\* strtol(s, NULL, 16): the value of the leading hexadecimal digits.
RECURSIVE StrtolFrom(_, _, _)
StrtolFrom(s, i, acc) ==
  IF i > Len(s) \/ ~IsHex(s[i]) THEN acc
  ELSE StrtolFrom(s, i + 1, acc * 16 + HexVal(s[i]))

strtol16(s) == StrtolFrom(s, 1, 0)

\* The decimal digits of n, most significant first.
RECURSIVE DecStr(_)
DecStr(n) ==
  IF n < 10 THEN <<DecDigits[n + 1]>>
  ELSE Append(DecStr(n \div 10), DecDigits[(n % 10) + 1])

\* sprintf(buf, "%02d", n): at least two digits, zero padded; more if n > 99.
Fmt02d(n) == IF n < 10 THEN <<"0">> \o DecStr(n) ELSE DecStr(n)

\* Hexadecimal digits without the zero padding of %04X.
RECURSIVE FmtX(_)
FmtX(h) ==
  IF h < 16 THEN <<HexDigits[h + 1]>>
  ELSE Append(FmtX(h \div 16), HexDigits[(h % 16) + 1])

\* sprintf(buf, "%04X", h) for a 16-bit h: four uppercase hexadecimal digits.
Fmt04X(h) ==
  <<HexDigits[((h \div 4096) % 16) + 1], HexDigits[((h \div 256) % 16) + 1],
    HexDigits[((h \div 16) % 16) + 1], HexDigits[(h % 16) + 1]>>

\* ASCII codes of the characters messages and headers are made of.
UpperCase == <<"A", "B", "C", "D", "E", "F", "G", "H", "I", "J", "K", "L", "M",
               "N", "O", "P", "Q", "R", "S", "T", "U", "V", "W", "X", "Y", "Z">>
LowerCase == <<"a", "b", "c", "d", "e", "f", "g", "h", "i", "j", "k", "l", "m",
               "n", "o", "p", "q", "r", "s", "t", "u", "v", "w", "x", "y", "z">>

IndexIn(seq, c) == CHOOSE i \in 1..Len(seq) : seq[i] = c
IsIn(seq, c) == \E i \in 1..Len(seq) : seq[i] = c

CharCode(c) ==
  CASE IsIn(DecDigits, c) -> 47 + IndexIn(DecDigits, c)
    [] IsIn(UpperCase, c) -> 64 + IndexIn(UpperCase, c)
    [] IsIn(LowerCase, c) -> 96 + IndexIn(LowerCase, c)
    [] c = " " -> 32
    [] c = "!" -> 33

---------------------------------------------------------------------------
(* simpleHash *)

RECURSIVE HashFrom(_, _, _)
HashFrom(s, i, h) ==
  IF i > Len(s) THEN h
  ELSE LET next == U16((h * 31) + CharCode(s[i]))
       IN  \* the uint16_t accumulator holds a reduced value at every character
           CASE next < 65536 -> HashFrom(s, i + 1, next)

simpleHash(s) == HashFrom(s, 1, 0)

---------------------------------------------------------------------------
(* Node state *)

EmptySlot == [src |-> <<>>, msgHash |-> 0]

FreeEntry ==
  [header |-> <<>>, message |-> <<>>, firstSentTime |-> 0, sentCount |-> 0,
   active |-> FALSE]

\* The lamp after construction: zero-initialised cache and queue, no INIT seen.
LampInit ==
  [cache |-> [i \in 0..(CACHE_SIZE - 1) |-> EmptySlot],
   cacheIndex |-> 0,
   retransmitQueue |-> [i \in 0..(RETRANSMIT_QUEUE_SIZE - 1) |-> FreeEntry],
   lastInitID |-> <<>>,
   myHop |-> INITIAL_HOP,
   latestLiFiMessage |-> <<>>,
   lastLiFiBroadcastTime |-> 0,
   clock |-> 0,
   overrun |-> <<>>,
   tx |-> <<>>, enq |-> <<>>, retx |-> <<>>, lifi |-> <<>>, calls |-> <<>>,
   alert |-> <<>>]

\* sprintf(hopStr, "%02d", n) with n > 99 writes four bytes into char
\* hopStr[3]: undefined behaviour.  String(hopStr) then reads the three
\* digits followed by whatever this build leaves before the next NUL: nothing,
\* or a stray byte.  A build that halts in the overrun takes no step.
OverrunTails == {<<>>, <<"?">>}

\* String(hopStr) after sprintf(hopStr, "%02d", n) in the lamp.
HopString(L, n) == IF n > 99 THEN Fmt02d(n) \o L.overrun ELSE Fmt02d(n)

\* The HQ after construction.
HqInit ==
  [cache |-> [i \in 0..(HQ_CACHE_SIZE - 1) |-> EmptySlot],
   cacheIndex |-> 0,
   clock |-> 0,
   tx |-> <<>>, enq |-> <<>>, calls |-> <<>>, host |-> <<>>]

\* A handler starts with empty logs.
LampBegin(L) ==
  [L EXCEPT !.tx = <<>>, !.enq = <<>>, !.retx = <<>>, !.lifi = <<>>,
            !.calls = <<>>, !.alert = <<>>]

HqBegin(H) == [H EXCEPT !.tx = <<>>, !.enq = <<>>, !.calls = <<>>, !.host = <<>>]

---------------------------------------------------------------------------
(* Dedup cache: isNew, the same code in the lamp (N = 3) and in HQ (N = 8) *)

\* A search that takes a slot with the same source alone for a match.
RECURSIVE CacheSearchSrcOnly(_, _, _, _, _)
CacheSearchSrcOnly(cache, i, N, src, hash) ==
  IF i >= N THEN FALSE
  ELSE IF cache[i].src = src THEN TRUE
  ELSE CacheSearchSrcOnly(cache, i + 1, N, src, hash)

\* A search that finds nothing.
CacheSearchNever(cache, i, N, src, hash) == FALSE

\* The search loop: TRUE iff a slot i..N-1 holds both src and hash.
RECURSIVE CacheSearch(_, _, _, _, _)
CacheSearch(cache, i, N, src, hash) ==
  IF i >= N THEN FALSE
  ELSE IF cache[i].src = src /\ cache[i].msgHash = hash THEN TRUE
  ELSE CacheSearch(cache, i + 1, N, src, hash)

\* The node after isNew(src, hash); the call and its result are logged.
isNewN(S, N, src, hash) ==
  IF CacheSearch(S.cache, 0, N, src, hash)
  THEN [S EXCEPT !.calls = Append(@, [src |-> src, hash |-> hash, ret |-> FALSE])]
  ELSE [S EXCEPT !.cache[S.cacheIndex] = [src |-> src, msgHash |-> hash],
                 !.cacheIndex = (S.cacheIndex + 1) % N,
                 !.calls = Append(@, [src |-> src, hash |-> hash, ret |-> TRUE])]

\* An isNew that records a new pair without moving cacheIndex on.
isNewSameSlot(L, src, hash) ==
  [isNewN(L, CACHE_SIZE, src, hash) EXCEPT !.cacheIndex = L.cacheIndex]

isNew(L, src, hash) == isNewN(L, CACHE_SIZE, src, hash)

hqIsNew(H, src, hash) == isNewN(H, HQ_CACHE_SIZE, src, hash)

\* The value the last isNew call returned.
Returned(S) == S.calls[Len(S.calls)].ret

---------------------------------------------------------------------------
(* Transmission *)

\* The time irSendString spends on a segment and its blank: delay(100) per
\* character.
SegmentTime(s) == (Len(s) + 1) * IR_CHAR_GAP

\* The time irSendRaw blocks: four directions, three gaps between them.
BurstTime(header, message) ==
  4 * (SegmentTime(header)
       + (IF Len(message) > 0 THEN IR_SEGMENT_GAP + SegmentTime(message) ELSE 0))
  + 3 * IR_DIRECTION_GAP

\* irSendRaw: one four-direction burst, logged with the time it started.
irSendRaw(S, header, message) ==
  [S EXCEPT !.tx = Append(@, [header |-> header, message |-> message,
                              at |-> S.clock]),
            !.clock = S.clock + BurstTime(header, message)]

---------------------------------------------------------------------------
(* Retransmission queue (lamp) *)

\* A search for a slot that settles on slot 0, active or not.
FreeSlotZero(q, i) == 0

\* The first inactive slot at or after i, RETRANSMIT_QUEUE_SIZE if none.
RECURSIVE FreeSlotFrom(_, _)
FreeSlotFrom(q, i) ==
  IF i >= RETRANSMIT_QUEUE_SIZE THEN RETRANSMIT_QUEUE_SIZE
  ELSE IF ~q[i].active THEN i
  ELSE FreeSlotFrom(q, i + 1)

addToRetransmitQueue(L, header, message) ==
  LET i == FreeSlotFrom(L.retransmitQueue, 0) IN
  IF i < RETRANSMIT_QUEUE_SIZE
  THEN [L EXCEPT !.retransmitQueue[i] =
                    [header |-> header, message |-> message,
                     firstSentTime |-> L.clock, sentCount |-> 1,
                     active |-> TRUE],
                 !.enq = Append(@, i)]
  ELSE [L EXCEPT !.enq = Append(@, RETRANSMIT_QUEUE_SIZE)]

\* A pump that retransmits whenever the interval has passed, whatever sentCount.
RECURSIVE PumpFromNoLimit(_, _, _)
PumpFromNoLimit(L, i, now) ==
  IF i >= RETRANSMIT_QUEUE_SIZE THEN L
  ELSE
    LET e == L.retransmitQueue[i]
        elapsed == now - e.firstSentTime
        nextSendTime == e.sentCount * RETRANSMIT_INTERVAL
    IN
    IF ~e.active THEN PumpFromNoLimit(L, i + 1, now)
    ELSE IF elapsed > REDUNDANCY_WINDOW
    THEN PumpFromNoLimit([L EXCEPT !.retransmitQueue[i].active = FALSE],
                         i + 1, now)
    ELSE IF elapsed >= nextSendTime
    THEN
      LET L1 == irSendRaw(L, e.header, e.message) IN
      PumpFromNoLimit([L1 EXCEPT !.retransmitQueue[i].sentCount = U8(@ + 1),
                                 !.retx = Append(@, i)],
                      i + 1, now)
    ELSE PumpFromNoLimit(L, i + 1, now)

\* The loop of processRetransmitQueue from slot i, with now read once.
RECURSIVE PumpFrom(_, _, _)
PumpFrom(L, i, now) ==
  IF i >= RETRANSMIT_QUEUE_SIZE THEN L
  ELSE
    LET e == L.retransmitQueue[i]
        elapsed == now - e.firstSentTime
        nextSendTime == e.sentCount * RETRANSMIT_INTERVAL
    IN
    IF ~e.active THEN PumpFrom(L, i + 1, now)
    ELSE IF elapsed > REDUNDANCY_WINDOW
    THEN PumpFrom([L EXCEPT !.retransmitQueue[i].active = FALSE], i + 1, now)
    ELSE IF elapsed >= nextSendTime /\ e.sentCount < RETRANSMIT_COUNT
    THEN
      LET L1 == irSendRaw(L, e.header, e.message) IN
      PumpFrom([L1 EXCEPT !.retransmitQueue[i].sentCount = U8(@ + 1),
                          !.retx = Append(@, i)],
               i + 1, now)
    ELSE PumpFrom(L, i + 1, now)

processRetransmitQueue(L) == PumpFrom(L, 0, L.clock)

\* A send that transmits the first burst and keeps no entry for retransmission.
irSendOnce(L, header, message) == irSendRaw(L, header, message)

\* irSend: the first burst, then the entry in the queue.
irSend(L, header, message) ==
  addToRetransmitQueue(irSendRaw(L, header, message), header, message)

---------------------------------------------------------------------------
(* Lamp handlers *)

\* lifiTransmit: the lamp light pulses for 100 ms.
lifiTransmit(L, message) ==
  [L EXCEPT !.lifi = Append(@, message), !.clock = L.clock + LIFI_PULSE]

\* A gradient update that takes the received hop whenever the epoch matches.
GradientUpdateAlways(L, initID, receivedHop) ==
  IF initID = L.lastInitID
  THEN [L EXCEPT !.myHop = U8(receivedHop + 1)]
  ELSE [L EXCEPT !.lastInitID = initID, !.myHop = U8(receivedHop + 1)]

\* A gradient update that never raises myHop, whatever the epoch.
GradientUpdateLowest(L, initID, receivedHop) ==
  [L EXCEPT !.lastInitID = initID,
            !.myHop = Min(L.myHop, U8(receivedHop + 1))]

\* The gradient update of processInit: the lamp with myHop and lastInitID set.
GradientUpdate(L, initID, receivedHop) ==
  IF initID = L.lastInitID
  THEN IF receivedHop < L.myHop - 1
       THEN [L EXCEPT !.myHop = U8(receivedHop + 1)]
       ELSE L
  ELSE [L EXCEPT !.lastInitID = initID, !.myHop = U8(receivedHop + 1)]

\* The header processInit forwards.
InitForwardHeader(L, header) ==
  LET src == Substring(header, 0, 4)
      initID == Substring(header, 4, 6)
      receivedHop == U8(toInt(Substring(header, 6, 8)))
      newHop == U8(receivedHop + 1)
  IN src \o initID \o HopString(L, newHop) \o <<MSG_TYPE_INIT>>

processInit(L, header) ==
  LET initID == Substring(header, 4, 6)
      receivedHop == U8(toInt(Substring(header, 6, 8)))
  IN irSend(GradientUpdate(L, initID, receivedHop),
            InitForwardHeader(L, header), <<>>)

\* The header generateSOS builds from the lamp's hop.
SosHeader(L) ==
  NODE_ID \o HQ_ID \o <<MSG_TYPE_SOS>> \o HopString(L, L.myHop)

generateSOS(L) == irSend(isNew(L, NODE_ID, 0), SosHeader(L), <<>>)

\* The hop a forwarded SOS or MESSAGE carries.
\* A hop that is passed on as received.
SameHop(msgHop) == msgHop

DecrementedHop(msgHop) == IF msgHop > 0 THEN msgHop - 1 ELSE 0

\* A gradient check that lets every packet through.
GradientCheckNone(L, msgHop) == TRUE

\* The gradient check: the lamp is close enough to HQ to forward.
GradientCheck(L, msgHop) == L.myHop <= msgHop + GRADIENT_TOLERANCE

\* forwardPacket, SOS branch (header of 11 characters, type '3').
ForwardSOS(L, header) ==
  LET src == Substring(header, 0, 4)
      dst == Substring(header, 4, 8)
      type == CharAt(header, 8)
      msgHop == U8(toInt(Substring(header, 9, 11)))
      newHeader == src \o dst \o <<type>> \o Fmt02d(DecrementedHop(msgHop))
      L1 == IF GradientCheck(L, msgHop)
            THEN LET L2 == isNew(L, src, 0) IN
                 IF Returned(L2) THEN irSend(L2, newHeader, <<>>) ELSE L2
            ELSE L
  IN IF dst = HQ_ID /\ NODE_ID = HQ_ID
     THEN [L1 EXCEPT !.alert = Append(@, [src |-> src, hop |-> msgHop])]
     ELSE L1

\* forwardPacket, MESSAGE branch (header of 15 characters, type '4').
ForwardMessage(L, header, message) ==
  LET src == Substring(header, 0, 4)
      dst == Substring(header, 4, 8)
      type == CharAt(header, 8)
      hashStr == Substring(header, 9, 13)
      receivedHash == U16(strtol16(hashStr))
      msgHop == U8(toInt(Substring(header, 13, 15)))
      newHeader ==
        src \o dst \o <<type>> \o hashStr \o Fmt02d(DecrementedHop(msgHop))
  IN
  IF simpleHash(message) # receivedHash THEN L
  ELSE
    LET L1 == IF GradientCheck(L, msgHop)
              THEN LET L2 == isNew(L, src, receivedHash) IN
                   IF Returned(L2) THEN irSend(L2, newHeader, message) ELSE L2
              ELSE L
    IN IF dst = HQ_ID /\ NODE_ID = HQ_ID
       THEN [L1 EXCEPT !.alert = Append(@, [src |-> src, hop |-> msgHop])]
       ELSE L1

\* The local delivery of an HQ broadcast: the LiFi state and lifiTransmit.
DeliverLiFi(L, message) ==
  lifiTransmit([L EXCEPT !.latestLiFiMessage = message,
                         !.lastLiFiBroadcastTime = L.clock],
               message)

\* The BROADCAST/TARGETED branch without its integrity check.
ForwardStandardUnchecked(L, header, message) ==
  LET L2 == isNew(L, Substring(header, 0, 4),
                  U16(strtol16(Substring(header, 9, 13))))
  IN IF Returned(L2) THEN irSend(L2, header, message) ELSE L2

\* forwardPacket, BROADCAST/TARGETED branch (any header of 13 characters).
ForwardStandard(L, header, message) ==
  LET src == Substring(header, 0, 4)
      dst == Substring(header, 4, 8)
      type == CharAt(header, 8)
      receivedHash == U16(strtol16(Substring(header, 9, 13)))
  IN
  IF simpleHash(message) # receivedHash THEN L
  ELSE
    LET L2 == isNew(L, src, receivedHash)
        L1 == IF Returned(L2) THEN irSend(L2, header, message) ELSE L2
    IN
    IF type = MSG_TYPE_BROADCAST /\ dst = BROADCAST_ID /\ IS_FROM_HQ(src)
    THEN DeliverLiFi(L1, message)
    ELSE IF type = MSG_TYPE_TARGETED /\ dst = NODE_ID /\ IS_FROM_HQ(src)
    THEN DeliverLiFi(L1, message)
    ELSE L1

\* forwardPacket: the dispatch on the type character and the header length.
forwardPacket(L, header, message) ==
  IF Len(header) < 9 THEN L
  ELSE
    LET type == CharAt(header, 8) IN
    IF type = MSG_TYPE_INIT /\ Len(header) = HEADER_LENGTH_INIT
    THEN processInit(L, header)
    ELSE IF type = MSG_TYPE_SOS /\ Len(header) = HEADER_LENGTH_SOS
    THEN ForwardSOS(L, header)
    ELSE IF type = MSG_TYPE_MESSAGE /\ Len(header) = HEADER_LENGTH_MESSAGE
    THEN ForwardMessage(L, header, message)
    ELSE IF Len(header) = HEADER_LENGTH_STANDARD
    THEN ForwardStandard(L, header, message)
    ELSE L

---------------------------------------------------------------------------
(* HQ handlers *)

InitHeader(initID) == HQ_ID \o initID \o Fmt02d(HQ_HOP) \o <<MSG_TYPE_INIT>>

BroadcastHeader(message) ==
  HQ_ID \o BROADCAST_ID \o <<MSG_TYPE_BROADCAST>> \o Fmt04X(simpleHash(message))

TargetedHeader(nodeID, message) ==
  HQ_ID \o nodeID \o <<MSG_TYPE_TARGETED>> \o Fmt04X(simpleHash(message))

MessageHeader(nodeID, message) ==
  HQ_ID \o nodeID \o <<MSG_TYPE_MESSAGE>> \o Fmt04X(simpleHash(message))
    \o Fmt02d(HQ_HOP)

sendInit(H, initID) == irSendRaw(hqIsNew(H, HQ_ID, 0), InitHeader(initID), <<>>)

sendBroadcast(H, message) ==
  irSendRaw(hqIsNew(H, HQ_ID, simpleHash(message)), BroadcastHeader(message),
            message)

sendTargeted(H, nodeID, message) ==
  irSendRaw(hqIsNew(H, HQ_ID, simpleHash(message)),
            TargetedHeader(nodeID, message), message)

sendMessage(H, nodeID, message) ==
  irSendRaw(hqIsNew(H, HQ_ID, simpleHash(message)),
            MessageHeader(nodeID, message), message)

\* The line HQ prints for the host program: src, type, message.
HostLine(src, type, message) == [src |-> src, type |-> type, message |-> message]

\* processPacket, SOS branch.
HqSOS(H, header) ==
  LET src == Substring(header, 0, 4)
      type == CharAt(header, 8)
      H1 == hqIsNew(H, src, 0)
  IN IF Returned(H1)
     THEN [H1 EXCEPT !.host = Append(@, HostLine(src, type, <<"S", "O", "S">>))]
     ELSE H1

\* processPacket, MESSAGE branch.
HqMessage(H, header, message) ==
  LET src == Substring(header, 0, 4)
      type == CharAt(header, 8)
      receivedHash == U16(strtol16(Substring(header, 9, 13)))
  IN
  IF simpleHash(message) # receivedHash THEN H
  ELSE LET H1 == hqIsNew(H, src, receivedHash) IN
       IF Returned(H1)
       THEN [H1 EXCEPT !.host = Append(@, HostLine(src, type, message))]
       ELSE H1

\* A processPacket that sends on what it received.
processPacketEcho(H, header, message) == irSendRaw(H, header, message)

processPacket(H, header, message) ==
  IF Len(header) < 9 THEN H
  ELSE
    LET type == CharAt(header, 8) IN
    IF type = MSG_TYPE_SOS /\ Len(header) = HEADER_LENGTH_SOS
    THEN HqSOS(H, header)
    ELSE IF type = MSG_TYPE_MESSAGE /\ Len(header) = HEADER_LENGTH_MESSAGE
    THEN HqMessage(H, header, message)
    ELSE H

---------------------------------------------------------------------------
(* Inputs *)

\* The longest run of handlers explored by Spec.
MaxOps == 3

OTHER_ID == <<"2", "0", "3", "b">>

MsgA == <<"A">>
MsgB == <<"H", "E", "L", "P", "!">>

InitIds == {<<"0", "1">>, <<"0", "2">>}

\* Hop fields on received packets.
HopFields == {<<"0", "0">>, <<"0", "2">>, <<"0", "3">>}

\* A header of 15 characters as sendMessage lays it out, from any source.
MessageFrom(src, dst, message, hop) ==
  src \o dst \o <<MSG_TYPE_MESSAGE>> \o Fmt04X(simpleHash(message)) \o hop

\* A header of 13 characters as sendBroadcast and sendTargeted lay it out.
StandardFrom(src, dst, type, message) ==
  src \o dst \o <<type>> \o Fmt04X(simpleHash(message))

\* Packets irReceive hands to forwardPacket at the lamp, as {header, message}.
InitPackets ==
  {<<HQ_ID \o id \o hop \o <<MSG_TYPE_INIT>>, <<>>>> :
     id \in InitIds, hop \in HopFields}

SosPackets ==
  {<<src \o HQ_ID \o <<MSG_TYPE_SOS>> \o hop, <<>>>> :
     src \in {OTHER_ID, NODE_ID}, hop \in {<<"0", "0">>, <<"0", "2">>}}

MessagePackets ==
  {<<MessageFrom(OTHER_ID, HQ_ID, MsgA, hop), MsgA>> :
     hop \in {<<"0", "0">>, <<"0", "2">>}}
  \cup {<<MessageFrom(OTHER_ID, HQ_ID, MsgA, <<"0", "2">>), MsgB>>}

StandardPackets ==
  {<<StandardFrom(HQ_ID, BROADCAST_ID, MSG_TYPE_BROADCAST, MsgA), MsgA>>,
   <<StandardFrom(HQ_ID, NODE_ID, MSG_TYPE_TARGETED, MsgB), MsgB>>,
   <<StandardFrom(HQ_ID, OTHER_ID, MSG_TYPE_TARGETED, MsgA), MsgA>>,
   <<StandardFrom(OTHER_ID, BROADCAST_ID, MSG_TYPE_BROADCAST, MsgB), MsgB>>,
   <<StandardFrom(HQ_ID, BROADCAST_ID, MSG_TYPE_BROADCAST, MsgA), MsgB>>}

LampPackets == InitPackets \cup SosPackets \cup MessagePackets \cup StandardPackets

\* Packets irReceive hands to processPacket at HQ.
HqPackets ==
  {<<src \o HQ_ID \o <<MSG_TYPE_SOS>> \o <<"0", "1">>, <<>>>> :
     src \in {NODE_ID, OTHER_ID}}
  \cup {<<MessageFrom(src, HQ_ID, m, <<"0", "1">>), m>> :
          src \in {NODE_ID, OTHER_ID}, m \in {MsgA, MsgB}}
  \cup {<<MessageFrom(NODE_ID, HQ_ID, MsgA, <<"0", "1">>), MsgB>>,
        <<HQ_ID \o <<"0", "1", "0", "1">> \o <<MSG_TYPE_INIT>>, <<>>>>,
        <<StandardFrom(HQ_ID, BROADCAST_ID, MSG_TYPE_BROADCAST, MsgA), MsgA>>}

\* Idle time between two polls of the loop, in milliseconds.
TickGaps == {0, RETRANSMIT_INTERVAL, REDUNDANCY_WINDOW}

---------------------------------------------------------------------------
(* The two firmwares as state machines *)

Op(name, header, message, n) ==
  [name |-> name, header |-> header, message |-> message, n |-> n,
   count |-> op.count + 1]

\* A run of one firmware on its own has no mesh.
NoNet == <<>>

Init ==
  /\ role \in {"lamp", "hq"}
  /\ lamp = LampInit
  /\ hq = HqInit
  /\ op = [name |-> "boot", header |-> <<>>, message |-> <<>>, n |-> 0,
           count |-> 0]
  /\ net = NoNet

\* loop(): irReceive returned a packet and forwardPacket processes it.
Receive(pkts) ==
  \E p \in pkts :
    /\ role = "lamp"
    /\ lamp' = forwardPacket(LampBegin(lamp), p[1], p[2])
    /\ op' = Op("forwardPacket", p[1], p[2], 0)
    /\ UNCHANGED <<role, hq, net>>

\* loop(): the SOS button was pressed.
PressSOS ==
  /\ role = "lamp"
  /\ lamp' = generateSOS(LampBegin(lamp))
  /\ op' = Op("generateSOS", <<>>, <<>>, 0)
  /\ UNCHANGED <<role, hq, net>>

\* loop(): dt milliseconds after the previous handler, the queue is pumped.
Tick(gaps) ==
  \E dt \in gaps :
    /\ role = "lamp"
    /\ lamp' = processRetransmitQueue(
                 [LampBegin(lamp) EXCEPT !.clock = lamp.clock + dt])
    /\ op' = Op("processRetransmitQueue", <<>>, <<>>, dt)
    /\ UNCHANGED <<role, hq, net>>

HqReceive(pkts) ==
  \E p \in pkts :
    /\ role = "hq"
    /\ hq' = processPacket(HqBegin(hq), p[1], p[2])
    /\ op' = Op("processPacket", p[1], p[2], 0)
    /\ UNCHANGED <<role, lamp, net>>

HqSendInit ==
  \E id \in InitIds :
    /\ role = "hq"
    /\ hq' = sendInit(HqBegin(hq), id)
    /\ op' = Op("sendInit", id, <<>>, 0)
    /\ UNCHANGED <<role, lamp, net>>

HqSendBroadcast ==
  \E m \in {MsgA, MsgB} :
    /\ role = "hq"
    /\ hq' = sendBroadcast(HqBegin(hq), m)
    /\ op' = Op("sendBroadcast", BROADCAST_ID, m, 0)
    /\ UNCHANGED <<role, lamp, net>>

HqSendTargeted ==
  \E m \in {MsgA, MsgB} :
    /\ role = "hq"
    /\ hq' = sendTargeted(HqBegin(hq), NODE_ID, m)
    /\ op' = Op("sendTargeted", NODE_ID, m, 0)
    /\ UNCHANGED <<role, lamp, net>>

HqSendMessage ==
  \E m \in {MsgA, MsgB} :
    /\ role = "hq"
    /\ hq' = sendMessage(HqBegin(hq), NODE_ID, m)
    /\ op' = Op("sendMessage", NODE_ID, m, 0)
    /\ UNCHANGED <<role, lamp, net>>

Next ==
  /\ op.count < MaxOps
  /\ \/ Receive(LampPackets)
     \/ PressSOS
     \/ Tick(TickGaps)
     \/ HqReceive(HqPackets)
     \/ HqSendInit
     \/ HqSendBroadcast
     \/ HqSendTargeted
     \/ HqSendMessage

Spec == Init /\ [][Next]_vars

---------------------------------------------------------------------------
(* The dedup cache alone: sequences of isNew calls on either firmware *)

\* The longest sequence of isNew calls explored by SpecCache.
MaxCalls == 10

HashA == simpleHash(MsgA)
HashB == simpleHash(MsgB)

\* The pairs offered to the lamp's cache, in any order.
LampPairs ==
  {[src |-> src, hash |-> h] : src \in {NODE_ID, OTHER_ID, HQ_ID},
                               h \in {0, HashA}}

\* The pairs offered to HQ's cache.  isNew compares sources and hashes for
\* equality only, so the k-th pair that is new to a run is named HqPairs[k];
\* a pair offered before may be offered again at any time.
HqPairs ==
  <<[src |-> HQ_ID, hash |-> 0], [src |-> NODE_ID, hash |-> 0],
    [src |-> OTHER_ID, hash |-> 0], [src |-> HQ_ID, hash |-> HashA],
    [src |-> NODE_ID, hash |-> HashA], [src |-> OTHER_ID, hash |-> HashA],
    [src |-> HQ_ID, hash |-> HashB], [src |-> NODE_ID, hash |-> HashB],
    [src |-> OTHER_ID, hash |-> HashB], [src |-> BROADCAST_ID, hash |-> 0]>>

InitCache ==
  /\ role \in {"cache-lamp", "cache-hq"}
  /\ lamp = LampInit
  /\ hq = HqInit
  /\ op = [name |-> "boot", header |-> <<>>, message |-> <<>>, n |-> 0,
           count |-> 0]
  /\ net = NoNet

\* op.message holds the number of pairs offered so far (as a sequence length).
CallLamp ==
  \E p \in LampPairs :
    /\ role = "cache-lamp"
    /\ lamp' = isNew(LampBegin(lamp), p.src, p.hash)
    /\ op' = Op("isNew", p.src, <<>>, p.hash)
    /\ UNCHANGED <<role, hq, net>>

CallHq ==
  \E k \in 1..Len(HqPairs) :
    /\ role = "cache-hq"
    /\ k <= Len(op.message) + 1
    /\ hq' = hqIsNew(HqBegin(hq), HqPairs[k].src, HqPairs[k].hash)
    /\ op' = Op("isNew", HqPairs[k].src,
                IF k = Len(op.message) + 1 THEN Append(op.message, "p")
                ELSE op.message,
                HqPairs[k].hash)
    /\ UNCHANGED <<role, lamp, net>>

NextCache ==
  /\ op.count < MaxCalls
  /\ \/ CallLamp
     \/ CallHq

SpecCache == InitCache /\ [][NextCache]_vars

---------------------------------------------------------------------------
(* The lamp receiving INIT packets only, over a wider range of hops *)

\* The longest run of INIT packets explored by SpecInit.
MaxInits == 3

\* Hop fields 00..MaxHopField, and the two highest, 98 and 99.
MaxHopField == 3

WideHops == (0..MaxHopField) \cup {98, 99}

WideInitPackets ==
  {<<HQ_ID \o id \o Fmt02d(h) \o <<MSG_TYPE_INIT>>, <<>>>> :
     id \in InitIds, h \in WideHops}

InitLamp ==
  /\ role = "lamp"
  /\ lamp = LampInit
  /\ hq = HqInit
  /\ op = [name |-> "boot", header |-> <<>>, message |-> <<>>, n |-> 0,
           count |-> 0]
  /\ net = NoNet

NextInit == op.count < MaxInits /\ Receive(WideInitPackets)

\* The lamp after boot, in a build with either outcome of an overrun.
InitBuild ==
  /\ role = "lamp"
  /\ lamp \in {[LampInit EXCEPT !.overrun = t] : t \in OverrunTails}
  /\ hq = HqInit
  /\ op = [name |-> "boot", header |-> <<>>, message |-> <<>>, n |-> 0,
           count |-> 0]
  /\ net = NoNet

SpecInit == InitBuild /\ [][NextInit]_vars

---------------------------------------------------------------------------
(* The lamp's retransmission queue under load: forwards and queue pumps *)

\* The longest run of handlers explored by SpecQueue.
MaxQueueOps == 5

\* The length of a long message.
LongLen == 64

LongA == [i \in 1..LongLen |-> "A"]
LongB == [i \in 1..LongLen |-> "B"]

\* Packets the lamp forwards whatever its hop: two INITs, two long broadcasts.
QueuePackets ==
  {<<HQ_ID \o id \o <<"0", "0">> \o <<MSG_TYPE_INIT>>, <<>>>> : id \in InitIds}
  \cup {<<StandardFrom(HQ_ID, BROADCAST_ID, MSG_TYPE_BROADCAST, m), m>> :
          m \in {LongA, LongB}}

\* Idle time before a pump: none, one retransmit interval, half a window.
QueueGaps == {0, RETRANSMIT_INTERVAL, REDUNDANCY_WINDOW \div 2}

NextQueue ==
  /\ op.count < MaxQueueOps
  /\ \/ Receive(QueuePackets)
     \/ Tick(QueueGaps)

SpecQueue == InitLamp /\ [][NextQueue]_vars

---------------------------------------------------------------------------
(* A mesh of HQ and lamps.  Every burst a node sends reaches every one of   *)
(* its neighbours once, in the order sent; each node processes what it      *)
(* heard in that order, at its own pace and on its own clock.               *)

\* The longest run of handlers explored by SpecMesh.
MaxMeshOps == 5

MeshLamps == {"A", "B"}
MeshNodes == MeshLamps \cup {"HQ"}

\* The mesh in which all nodes hear each other, and the line HQ - A - B.
CompleteLinks == [m \in MeshNodes |-> MeshNodes \ {m}]
LineLinks == ("HQ" :> {"A"}) @@ ("A" :> {"HQ", "B"}) @@ ("B" :> {"A"})

\* The packets of the bursts in a handler's tx log, heard by every neighbour
\* of the sender.
Heard(air, sender, tx) ==
  [m \in MeshNodes |->
     IF m \notin net.links[sender] THEN air[m]
     ELSE air[m] \o [k \in 1 .. Len(tx) |-> <<tx[k].header, tx[k].message>>]]

MeshOp(name, node, header, message) ==
  [name |-> name, node |-> node, header |-> header, message |-> message,
   count |-> op.count + 1]

InitMesh ==
  /\ role = "mesh"
  /\ lamp = LampInit
  /\ hq = HqInit
  /\ op = [name |-> "boot", node |-> "HQ", header |-> <<>>, message |-> <<>>,
           count |-> 0]
  /\ net = [lamps |-> [n \in MeshLamps |-> LampInit],
            hq |-> HqInit,
            air |-> [m \in MeshNodes |-> <<>>],
            epochs |-> {},
            links |-> CompleteLinks]

\* The same nodes after construction, in either arrangement.
InitLine ==
  /\ role = "mesh"
  /\ lamp = LampInit
  /\ hq = HqInit
  /\ op = [name |-> "boot", node |-> "HQ", header |-> <<>>, message |-> <<>>,
           count |-> 0]
  /\ \E links \in {CompleteLinks, LineLinks} :
       net = [lamps |-> [n \in MeshLamps |-> LampInit],
              hq |-> HqInit,
              air |-> [m \in MeshNodes |-> <<>>],
              epochs |-> {},
              links |-> links]

\* The operator starts an epoch at HQ, with an id not used before.
MeshSendInit ==
  \E id \in InitIds \ net.epochs :
    LET H == sendInit(HqBegin(net.hq), id) IN
    /\ net' = [net EXCEPT !.hq = H, !.air = Heard(net.air, "HQ", H.tx),
                          !.epochs = @ \cup {id}]
    /\ op' = MeshOp("sendInit", "HQ", id, <<>>)
    /\ UNCHANGED <<role, lamp, hq>>

\* loop() of lamp n: irReceive returns the oldest packet heard.
MeshReceive ==
  \E n \in MeshLamps :
    /\ net.air[n] # <<>>
    /\ LET p == Head(net.air[n])
           L == forwardPacket(LampBegin(net.lamps[n]), p[1], p[2])
       IN
       /\ net' = [net EXCEPT
                    !.lamps[n] = L,
                    !.air = Heard([net.air EXCEPT ![n] = Tail(@)], n, L.tx)]
       /\ op' = MeshOp("forwardPacket", n, p[1], p[2])
    /\ UNCHANGED <<role, lamp, hq>>

\* loop() of lamp n: the queue is pumped a retransmit interval later.
MeshTick ==
  \E n \in MeshLamps :
    LET L == processRetransmitQueue(
               [LampBegin(net.lamps[n]) EXCEPT
                  !.clock = @ + RETRANSMIT_INTERVAL])
    IN
    /\ L.tx # <<>>
    /\ net' = [net EXCEPT !.lamps[n] = L, !.air = Heard(net.air, n, L.tx)]
    /\ op' = MeshOp("processRetransmitQueue", n, <<>>, <<>>)
    /\ UNCHANGED <<role, lamp, hq>>

\* loop() of HQ: irReceive returns the oldest packet heard.
MeshHqReceive ==
  /\ net.air["HQ"] # <<>>
  /\ LET p == Head(net.air["HQ"])
         H == processPacket(HqBegin(net.hq), p[1], p[2])
     IN
     /\ net' = [net EXCEPT
                  !.hq = H,
                  !.air = Heard([net.air EXCEPT !["HQ"] = Tail(@)], "HQ", H.tx)]
     /\ op' = MeshOp("processPacket", "HQ", p[1], p[2])
  /\ UNCHANGED <<role, lamp, hq>>

NextMesh ==
  /\ op.count < MaxMeshOps
  /\ \/ MeshSendInit
     \/ MeshReceive
     \/ MeshTick
     \/ MeshHqReceive

SpecMesh == InitMesh /\ [][NextMesh]_vars

SpecLine == InitLine /\ [][NextMesh]_vars

---------------------------------------------------------------------------
(* An SOS in a mesh whose gradient has converged *)

\* The number of times the SOS button is pressed in SpecSos.
MaxPresses == 1

\* The hop distance to HQ of the lamps of each arrangement.
HopsOf(links) == [n \in MeshLamps |-> IF "HQ" \in links[n] THEN 1 ELSE 2]

\* A lamp at distance d after the flood of epoch 01: it has processed the
\* INIT with hop d - 1 and its retransmit window has expired.
ConvergedLamp(d) ==
  LampBegin(processRetransmitQueue(
    [processInit(LampInit, HQ_ID \o <<"0", "1">> \o Fmt02d(d - 1)
                             \o <<MSG_TYPE_INIT>>)
       EXCEPT !.clock = @ + REDUNDANCY_WINDOW + 1]))

\* net.origin is the lamp built with NODE_ID 102a, the one whose button is
\* pressed; net.reports collects what HQ prints for the host.
InitSos ==
  /\ role = "mesh"
  /\ lamp = LampInit
  /\ hq = HqInit
  /\ op = [name |-> "boot", node |-> "HQ", header |-> <<>>, message |-> <<>>,
           count |-> 0]
  /\ \E links \in {CompleteLinks, LineLinks} : \E origin \in MeshLamps :
       net = [lamps |-> [n \in MeshLamps |-> ConvergedLamp(HopsOf(links)[n])],
              hq |-> HqBegin(sendInit(HqInit, <<"0", "1">>)),
              air |-> [m \in MeshNodes |-> <<>>],
              epochs |-> {<<"0", "1">>},
              links |-> links,
              origin |-> origin,
              pressed |-> 0,
              reports |-> <<>>]

\* loop() of the origin: the SOS button was pressed.
SosPress ==
  /\ role = "mesh"
  /\ net.pressed < MaxPresses
  /\ LET L == generateSOS(LampBegin(net.lamps[net.origin])) IN
     /\ net' = [net EXCEPT !.lamps[net.origin] = L,
                           !.air = Heard(net.air, net.origin, L.tx),
                           !.pressed = @ + 1]
     /\ op' = MeshOp("generateSOS", net.origin, <<>>, <<>>)
  /\ UNCHANGED <<role, lamp, hq>>

\* loop() of HQ: irReceive returns the oldest packet heard.
SosHqReceive ==
  /\ net.air["HQ"] # <<>>
  /\ LET p == Head(net.air["HQ"])
         H == processPacket(HqBegin(net.hq), p[1], p[2])
     IN
     /\ net' = [net EXCEPT
                  !.hq = H,
                  !.air = Heard([net.air EXCEPT !["HQ"] = Tail(@)], "HQ", H.tx),
                  !.reports = @ \o H.host]
     /\ op' = MeshOp("processPacket", "HQ", p[1], p[2])
  /\ UNCHANGED <<role, lamp, hq>>

NextSos ==
  \/ SosPress
  \/ MeshReceive
  \/ MeshTick
  \/ SosHqReceive

\* Every node keeps polling irReceive and the retransmit queue from loop().
SpecSos ==
  /\ InitSos
  /\ [][NextSos]_vars
  /\ WF_vars(MeshReceive)
  /\ WF_vars(MeshTick)
  /\ WF_vars(SosHqReceive)

---------------------------------------------------------------------------
(* The lamp's dedup cache offered a sequence of pairs twice over *)

\* The longest sequence of pairs offered by SpecTwice.
MaxSeqLen == 7

\* Two pairs more than the ring has slots.  isNew compares sources and
\* hashes for equality only, so the k-th pair that is new to a sequence is
\* named TwicePairs[k].
TwicePairs ==
  <<[src |-> NODE_ID, hash |-> 0], [src |-> OTHER_ID, hash |-> 0],
    [src |-> HQ_ID, hash |-> 0], [src |-> HQ_ID, hash |-> HashA],
    [src |-> HQ_ID, hash |-> HashB]>>

\* The number of distinct pairs of a sequence of indices into TwicePairs.
Distinct(S) == Cardinality({S[i] : i \in 1 .. Len(S)})

\* op.S is the sequence offered in the first pass; op.count counts the calls
\* of both passes.
InitTwice ==
  /\ role = "twice"
  /\ lamp = LampInit
  /\ hq = HqInit
  /\ net = NoNet
  /\ op = [name |-> "boot", header |-> <<>>, message |-> <<>>, n |-> 0,
           count |-> 0, S |-> <<>>]

\* First pass: isNew for one more pair, offered before or new.
CallFirst ==
  \E k \in 1 .. Len(TwicePairs) :
    /\ role = "twice"
    /\ op.count = Len(op.S)
    /\ Len(op.S) < MaxSeqLen
    /\ k <= Distinct(op.S) + 1
    /\ lamp' = isNew(LampBegin(lamp), TwicePairs[k].src, TwicePairs[k].hash)
    /\ op' = [op EXCEPT !.name = "isNew", !.header = TwicePairs[k].src,
                        !.n = TwicePairs[k].hash, !.count = @ + 1,
                        !.S = Append(@, k)]
    /\ UNCHANGED <<role, hq, net>>

\* Second pass: isNew for the next pair of the sequence of the first pass.
CallAgain ==
  /\ role = "twice"
  /\ op.count >= Len(op.S)
  /\ op.count < 2 * Len(op.S)
  /\ LET p == TwicePairs[op.S[op.count - Len(op.S) + 1]] IN
     /\ lamp' = isNew(LampBegin(lamp), p.src, p.hash)
     /\ op' = [op EXCEPT !.name = "isNew", !.header = p.src, !.n = p.hash,
                          !.count = @ + 1]
  /\ UNCHANGED <<role, hq, net>>

NextTwice ==
  \/ CallFirst
  \/ CallAgain

SpecTwice == InitTwice /\ [][NextTwice]_vars

---------------------------------------------------------------------------
(* simpleHash on its own: messages grown one character at a time *)

\* The longest message hashed by SpecHash.
MaxHashLen == 5

\* The characters of the messages: those of "HELP!" and of "A".
HashChars == {"A", "H", "E", "L", "P", "!"}

\* The pre-computed hash of SOS_MESSAGE in the modular variant (0x28F9).
SOS_HASH == 10489

\* op.n is what simpleHash returns for op.message.
InitHash ==
  /\ role = "hash"
  /\ lamp = LampInit
  /\ hq = HqInit
  /\ net = NoNet
  /\ op = [name |-> "simpleHash", header |-> <<>>, message |-> <<>>,
           n |-> simpleHash(<<>>), count |-> 0]

HashLonger ==
  \E c \in HashChars :
    /\ role = "hash"
    /\ Len(op.message) < MaxHashLen
    /\ op' = [op EXCEPT !.message = Append(@, c),
                        !.n = simpleHash(Append(op.message, c)),
                        !.count = @ + 1]
    /\ UNCHANGED <<role, lamp, hq, net>>

NextHash == HashLonger

SpecHash == InitHash /\ [][NextHash]_vars

---------------------------------------------------------------------------
(* Originators and the header fields as the receiving handlers read them *)

\* The longest message an originator is given in SpecCodec.
MaxCodecLen == 3

CodecMessages == UNION {[1 .. k -> HashChars] : k \in 1 .. MaxCodecLen}

CodecDsts == {NODE_ID, OTHER_ID, BROADCAST_ID}

\* The fields forwardPacket and processPacket read from a header.
ParseSrc(header) == Substring(header, 0, 4)
ParseDst(header) == Substring(header, 4, 8)
ParseType(header) == CharAt(header, 8)
ParseSosHop(header) == U8(toInt(Substring(header, 9, 11)))
ParseHash(header) == U16(strtol16(Substring(header, 9, 13)))
ParseMessageHop(header) == U8(toInt(Substring(header, 13, 15)))

\* The fields processInit reads from a header.
ParseInitId(header) == Substring(header, 4, 6)
ParseInitHop(header) == U8(toInt(Substring(header, 6, 8)))

InitCodec ==
  /\ role = "codec"
  /\ lamp = LampInit
  /\ hq = HqInit
  /\ net = NoNet
  /\ op = [name |-> "boot", header |-> <<>>, message |-> <<>>, n |-> 0,
           count |-> 0]

\* A lamp whose hop is h originates an SOS.
BuildSOS ==
  \E h \in 0 .. INITIAL_HOP :
    /\ lamp' = generateSOS([LampInit EXCEPT !.myHop = h])
    /\ op' = Op("generateSOS", <<>>, <<>>, h)
    /\ UNCHANGED <<role, hq, net>>

BuildInit ==
  \E id \in InitIds :
    /\ hq' = sendInit(HqInit, id)
    /\ op' = Op("sendInit", id, <<>>, 0)
    /\ UNCHANGED <<role, lamp, net>>

BuildBroadcast ==
  \E m \in CodecMessages :
    /\ hq' = sendBroadcast(HqInit, m)
    /\ op' = Op("sendBroadcast", BROADCAST_ID, m, 0)
    /\ UNCHANGED <<role, lamp, net>>

BuildTargeted ==
  \E m \in CodecMessages, dst \in CodecDsts :
    /\ hq' = sendTargeted(HqInit, dst, m)
    /\ op' = Op("sendTargeted", dst, m, 0)
    /\ UNCHANGED <<role, lamp, net>>

BuildMessage ==
  \E m \in CodecMessages, dst \in CodecDsts :
    /\ hq' = sendMessage(HqInit, dst, m)
    /\ op' = Op("sendMessage", dst, m, 0)
    /\ UNCHANGED <<role, lamp, net>>

\* sprintf(hashStr, "%04X", hash) of the originators, for any 16-bit hash.
FormatHash ==
  \E h \in 0 .. 65535 :
    /\ op' = Op("sprintf", Fmt04X(h), <<>>, h)
    /\ UNCHANGED <<role, lamp, hq, net>>

\* One originator call per run.
NextCodec ==
  /\ role = "codec"
  /\ op.count = 0
  /\ \/ BuildSOS
     \/ BuildInit
     \/ BuildBroadcast
     \/ BuildTargeted
     \/ BuildMessage
     \/ FormatHash

SpecCodec == InitCodec /\ [][NextCodec]_vars

---------------------------------------------------------------------------
(* Every header the nodes emit: all packet types, all hop fields *)

\* The longest run of handlers explored by SpecEmit.
MaxEmitOps == 2

NextEmit ==
  /\ op.count < MaxEmitOps
  /\ \/ Receive(WideInitPackets \cup LampPackets)
     \/ PressSOS
     \/ HqSendInit
     \/ HqSendBroadcast
     \/ HqSendTargeted
     \/ HqSendMessage

InitEmit ==
  /\ role \in {"lamp", "hq"}
  /\ lamp \in {[LampInit EXCEPT !.overrun = t] : t \in OverrunTails}
  /\ hq = HqInit
  /\ op = [name |-> "boot", header |-> <<>>, message |-> <<>>, n |-> 0,
           count |-> 0]
  /\ net = NoNet

SpecEmit == InitEmit /\ [][NextEmit]_vars

---------------------------------------------------------------------------
(* irSendRaw, one IrSender.sendNEC at a time *)

\* The longest run of bursts explored by SpecTx.
MaxBursts == 2

\* txPins[] of irSendRaw, by the names of dirNames[].
txPins == <<"FRONT", "RIGHT", "BACK", "LEFT">>

\* header + " " and message + " ": the delimiter that ends a segment.
WithDelim(s) == s \o <<" ">>

\* IrReceiver.stop() left out.
ReceiverKeep(running) == running

\* IrReceiver.stop() and IrReceiver.start(), on the receiver's running flag.
ReceiverStop(running) == FALSE
ReceiverStart(running) == TRUE

\* The callers of irSendRaw: irSend (first transmission) and
\* processRetransmitQueue (retransmission) in the lamp, the senders at HQ.
TxCallers ==
  {<<"lamp", "irSend">>, <<"lamp", "processRetransmitQueue">>,
   <<"hq", "sendInit">>, <<"hq", "sendBroadcast">>}

\* A header-only burst and a burst with a message.
TxBursts ==
  {<<HQ_ID \o <<"0", "1", "0", "0">> \o <<MSG_TYPE_INIT>>, <<>>>>,
   <<StandardFrom(HQ_ID, BROADCAST_ID, MSG_TYPE_BROADCAST, MsgA), MsgA>>}

\* irInit has run: the receiver is running and nothing is being sent.
InitTx ==
  /\ role = "tx"
  /\ lamp = LampInit
  /\ hq = HqInit
  /\ op = [name |-> "irInit", header |-> <<>>, message |-> <<>>, n |-> 0,
           count |-> 0]
  /\ net = [node |-> "lamp", caller |-> "irInit", header |-> <<>>,
            message |-> <<>>, running |-> TRUE, pc |-> "idle", i |-> 0,
            pin |-> "", str |-> <<>>, sent |-> <<>>, bursts |-> 0]

\* irSendRaw is entered and stops the receiver.
TxStop ==
  \E c \in TxCallers, p \in TxBursts :
    /\ role = "tx"
    /\ net.pc = "idle"
    /\ net.bursts < MaxBursts
    /\ net' = [net EXCEPT !.node = c[1], !.caller = c[2], !.header = p[1],
                          !.message = p[2],
                          !.running = ReceiverStop(net.running),
                          !.pc = "header", !.i = 0, !.sent = <<>>]
    /\ op' = Op("IrReceiver.stop", p[1], p[2], 0)
    /\ UNCHANGED <<role, lamp, hq>>

\* irSendString(headerWithDelim, txPins[i]): IrSender.begin on the pin.
TxHeader ==
  /\ role = "tx"
  /\ net.pc = "header"
  /\ net' = [net EXCEPT !.pin = txPins[net.i + 1],
                        !.str = WithDelim(net.header), !.pc = "sendHeader"]
  /\ op' = Op("IrSender.begin", net.header, net.message, net.i)
  /\ UNCHANGED <<role, lamp, hq>>

\* The while loop of irSendString: one character by IrSender.sendNEC.
TxChar ==
  /\ role = "tx"
  /\ net.pc \in {"sendHeader", "sendMessage"}
  /\ net.str # <<>>
  /\ net' = [net EXCEPT !.sent = Append(@, [pin |-> net.pin,
                                            c |-> Head(net.str),
                                            running |-> net.running]),
                        !.str = Tail(net.str)]
  /\ op' = Op("sendNEC", net.header, net.message, net.i)
  /\ UNCHANGED <<role, lamp, hq>>

\* The header is out: the message follows on the same pin if there is one.
TxHeaderSent ==
  /\ role = "tx"
  /\ net.pc = "sendHeader"
  /\ net.str = <<>>
  /\ net' = IF Len(net.message) > 0
            THEN [net EXCEPT !.str = WithDelim(net.message),
                             !.pc = "sendMessage"]
            ELSE [net EXCEPT !.pc = "gap"]
  /\ op' = Op("irSendString", net.header, net.message, net.i)
  /\ UNCHANGED <<role, lamp, hq>>

\* The message is out.
TxMessageSent ==
  /\ role = "tx"
  /\ net.pc = "sendMessage"
  /\ net.str = <<>>
  /\ net' = [net EXCEPT !.pc = "gap"]
  /\ op' = Op("irSendString", net.header, net.message, net.i)
  /\ UNCHANGED <<role, lamp, hq>>

\* The end of the loop body: the next direction, or the loop is over.
TxNextDirection ==
  /\ role = "tx"
  /\ net.pc = "gap"
  /\ net' = IF net.i < 3
            THEN [net EXCEPT !.i = net.i + 1, !.pc = "header"]
            ELSE [net EXCEPT !.i = net.i + 1, !.pc = "start"]
  /\ op' = Op("delay", net.header, net.message, net.i)
  /\ UNCHANGED <<role, lamp, hq>>

\* irSendRaw starts the receiver again and returns.
TxStart ==
  /\ role = "tx"
  /\ net.pc = "start"
  /\ net' = [net EXCEPT !.running = ReceiverStart(net.running),
                        !.pc = "idle", !.bursts = net.bursts + 1]
  /\ op' = Op("IrReceiver.start", net.header, net.message, 0)
  /\ UNCHANGED <<role, lamp, hq>>

NextTx ==
  \/ TxStop
  \/ TxHeader
  \/ TxChar
  \/ TxHeaderSent
  \/ TxMessageSent
  \/ TxNextDirection
  \/ TxStart

SpecTx == InitTx /\ [][NextTx]_vars

---------------------------------------------------------------------------
(* irReceive, one call at a time *)

\* The longest run of irReceive calls explored by SpecRx.
MaxRxCalls == 22

\* The most segments that arrive in a run of SpecRx.
MaxSegments == 2

\* String::trim(): leading and trailing spaces removed.
RECURSIVE TrimLeft(_)
TrimLeft(s) ==
  IF s # <<>> /\ Head(s) = " " THEN TrimLeft(Tail(s)) ELSE s

RECURSIVE TrimRight(_)
TrimRight(s) ==
  IF s # <<>> /\ s[Len(s)] = " " THEN TrimRight(SubSeq(s, 1, Len(s) - 1))
  ELSE s

Trim(s) == TrimRight(TrimLeft(s))

\* The statics of irReceiveString and irReceive after boot, with the log of
\* the last call: the line it completed, the packet it returned, whether it
\* paired a pending header with the line, and the pending header's age.
RxInit ==
  [now |-> 0, buffer |-> <<>>, lastCharTime |-> 0,
   waitingForMessage |-> FALSE, receivedHeader |-> <<>>,
   headerReceivedTime |-> 0,
   line |-> <<>>, ret |-> <<>>, paired |-> FALSE, age |-> 0]

\* irReceiveString: decoded is <<>> when IrReceiver.decode() has nothing,
\* <<c>> when it has the NEC character c.  The completed line is <<line>>.
irReceiveString(R, decoded) ==
  LET kept == IF Len(R.buffer) > 0 /\ R.now - R.lastCharTime > TIMEOUT
              THEN <<>> ELSE R.buffer
  IN IF decoded = <<>> THEN [R EXCEPT !.buffer = kept, !.line = <<>>]
     ELSE IF decoded[1] = " "
          THEN [R EXCEPT !.buffer = <<>>, !.line = <<kept>>]
          ELSE [R EXCEPT !.buffer = Append(kept, decoded[1]),
                         !.lastCharTime = R.now, !.line = <<>>]

\* A reassembler that pairs lines two by two, whatever they are.
ReassemblePairAlways(R) ==
  IF R.line = <<>> THEN R
  ELSE IF R.waitingForMessage
  THEN [R EXCEPT !.ret = <<R.receivedHeader, Trim(R.line[1])>>,
                 !.paired = TRUE, !.waitingForMessage = FALSE,
                 !.receivedHeader = <<>>]
  ELSE [R EXCEPT !.receivedHeader = Trim(R.line[1]),
                 !.waitingForMessage = TRUE, !.headerReceivedTime = R.now]

\* irReceive, once irReceiveString has run.
Reassemble(R) ==
     IF R.line # <<>>
     THEN LET line == Trim(R.line[1])
          IN IF Len(line) = HEADER_LENGTH_INIT /\ line[9] = MSG_TYPE_INIT
             THEN [R EXCEPT !.ret = <<line, <<>>>>,
                            !.waitingForMessage = FALSE,
                            !.receivedHeader = <<>>]
             ELSE IF Len(line) = HEADER_LENGTH_SOS /\ line[9] = MSG_TYPE_SOS
             THEN [R EXCEPT !.ret = <<line, <<>>>>,
                            !.waitingForMessage = FALSE,
                            !.receivedHeader = <<>>]
             ELSE IF ~R.waitingForMessage
             THEN IF Len(line) = HEADER_LENGTH_STANDARD
                       \/ Len(line) = HEADER_LENGTH_MESSAGE
                  THEN [R EXCEPT !.receivedHeader = line,
                                 !.waitingForMessage = TRUE,
                                 !.headerReceivedTime = R.now]
                  ELSE R
             ELSE [R EXCEPT !.ret = <<R.receivedHeader, line>>,
                            !.paired = TRUE,
                            !.age = R.now - R.headerReceivedTime,
                            !.waitingForMessage = FALSE,
                            !.receivedHeader = <<>>]
     ELSE IF R.waitingForMessage
               /\ R.now - R.headerReceivedTime > IR_MESSAGE_TIMEOUT
          THEN [R EXCEPT !.waitingForMessage = FALSE, !.receivedHeader = <<>>]
          ELSE R

\* irReceive(header, message) called at R.now.
irReceive(R, decoded) ==
  Reassemble(irReceiveString([R EXCEPT !.ret = <<>>, !.paired = FALSE,
                                       !.age = 0], decoded))

\* The time between two calls of irReceive: a pass of loop() that pulses
\* the lamp, and a pass held up for a second.
CallGaps == {LIFI_PULSE, 1000}

\* Segments on the air: a 13-character header, its message, an INIT.
RxSegments ==
  {StandardFrom(HQ_ID, BROADCAST_ID, MSG_TYPE_BROADCAST, MsgA), MsgA,
   HQ_ID \o <<"0", "1", "0", "0">> \o <<MSG_TYPE_INIT>>}

InitRx ==
  /\ role = "rx"
  /\ lamp = LampInit
  /\ hq = HqInit
  /\ op = [name |-> "irInit", header |-> <<>>, message |-> <<>>, n |-> 0,
           count |-> 0]
  /\ net = [rx |-> RxInit, pending |-> <<>>, segments |-> 0]

\* A neighbour starts to send a segment; the first one is a header.
RxArrive ==
  \E s \in RxSegments :
    /\ role = "rx"
    /\ net.pending = <<>>
    /\ net.segments < MaxSegments
    /\ net.segments = 0 => Len(s) = HEADER_LENGTH_STANDARD
    /\ net' = [net EXCEPT !.pending = WithDelim(s),
                          !.segments = net.segments + 1]
    /\ UNCHANGED <<role, lamp, hq, op>>

\* loop() calls irReceive dt milliseconds after the call before; the
\* receiver hands over the next character on the air, if there is one.
RxCall ==
  \E dt \in CallGaps :
    /\ role = "rx"
    /\ op.count < MaxRxCalls
    /\ net.segments > 0
    /\ LET R == [net.rx EXCEPT !.now = net.rx.now + dt]
           decoded == IF net.pending = <<>> THEN <<>>
                      ELSE <<Head(net.pending)>>
       IN /\ net' = [net EXCEPT !.rx = irReceive(R, decoded),
                                !.pending = IF net.pending = <<>> THEN <<>>
                                            ELSE Tail(net.pending)]
          /\ op' = Op("irReceive", decoded, <<>>, dt)
    /\ UNCHANGED <<role, lamp, hq>>

NextRx == RxArrive \/ RxCall

SpecRx == InitRx /\ [][NextRx]_vars

---------------------------------------------------------------------------
(* Local delivery: headers of 13 characters of every source, destination *)
(* and type                                                               *)

\* The longest run of handlers explored by SpecLocal.
MaxLocalOps == 2

\* Headers of 13 characters carrying the hash of MsgA, with MsgA (good hash)
\* and with MsgB (bad hash).
LocalPackets ==
  {<<StandardFrom(src, dst, type, MsgA), m>> :
     src \in {HQ_ID, OTHER_ID, NODE_ID},
     dst \in {BROADCAST_ID, NODE_ID, OTHER_ID, HQ_ID},
     type \in {MSG_TYPE_INIT, MSG_TYPE_BROADCAST, MSG_TYPE_TARGETED,
               MSG_TYPE_SOS, MSG_TYPE_MESSAGE},
     m \in {MsgA, MsgB}}

NextLocal ==
  /\ op.count < MaxLocalOps
  /\ Receive(LocalPackets \cup LampPackets)

SpecLocal == InitLamp /\ [][NextLocal]_vars

---------------------------------------------------------------------------
(* HQ's sendBroadcast heard by an adjacent lamp, character by character *)

\* The message of the scenario: 21 characters, two of them spaces.
Evacuation ==
  <<"E", "v", "a", "c", "u", "a", "t", "i", "o", "n", " ",
    "r", "o", "u", "t", "e", " ", "o", "p", "e", "n">>

\* Messages HQ broadcasts.
E2EMessages == {MsgA, MsgB, Evacuation}

\* The time between two characters at the receiver: the sender's delay(100)
\* after each character, and the delay(50) more between header and message.
E2EGaps == {IR_CHAR_GAP, IR_CHAR_GAP + IR_SEGMENT_GAP}

\* What irSendRaw puts on the air in one direction.
OnAir(header, message) ==
  WithDelim(header) \o (IF Len(message) > 0 THEN WithDelim(message) ELSE <<>>)

InitE2E ==
  /\ role = "e2e"
  /\ lamp = LampInit
  /\ hq = HqInit
  /\ op = [name |-> "boot", header |-> <<>>, message |-> <<>>, n |-> 0,
           count |-> 0]
  /\ net = [rx |-> RxInit, pending |-> <<>>, packets |-> <<>>,
            forwards |-> <<>>, lifi |-> <<>>]

\* HQ broadcasts; the lamp faces one of HQ's four emitters.
E2ESend ==
  \E m \in E2EMessages :
    /\ role = "e2e"
    /\ op.name = "boot"
    /\ hq' = sendBroadcast(HqBegin(hq), m)
    /\ net' = [net EXCEPT !.pending = OnAir(hq'.tx[1].header,
                                            hq'.tx[1].message)]
    /\ op' = Op("sendBroadcast", BROADCAST_ID, m, 0)
    /\ UNCHANGED <<role, lamp>>

\* loop() of the lamp: irReceive takes the next character, and a packet it
\* returns goes to forwardPacket.
E2EReceive ==
  \E dt \in E2EGaps :
    /\ role = "e2e"
    /\ net.pending # <<>>
    /\ LET R == irReceive([net.rx EXCEPT !.now = net.rx.now + dt],
                          <<Head(net.pending)>>)
           L == IF R.ret = <<>> THEN lamp
                ELSE forwardPacket([LampBegin(lamp) EXCEPT !.clock = R.now],
                                   R.ret[1], R.ret[2])
       IN /\ lamp' = L
          /\ net' = IF R.ret = <<>>
                    THEN [net EXCEPT !.rx = R, !.pending = Tail(net.pending)]
                    ELSE [net EXCEPT !.rx = R, !.pending = Tail(net.pending),
                                     !.packets = Append(@, R.ret),
                                     !.forwards = @ \o L.tx,
                                     !.lifi = @ \o L.lifi]
          /\ op' = [op EXCEPT !.name = "irReceive", !.n = dt,
                              !.count = op.count + 1]
    /\ UNCHANGED <<role, hq>>

NextE2E == E2ESend \/ E2EReceive

SpecE2E == InitE2E /\ [][NextE2E]_vars

---------------------------------------------------------------------------
(* Messages of several lengths from HQ to an adjacent lamp, character by *)
(* character                                                             *)

\* The lengths of the messages: one character, twenty, thirty, and LongLen.
LongLengths == {1, 20, 30, LongLen}

LongMessages == {[i \in 1 .. n |-> "A"] : n \in LongLengths}

\* HQ sends a broadcast (header of 13 characters) or a message (15).
LongSend ==
  \E m \in LongMessages : \E type \in {MSG_TYPE_BROADCAST, MSG_TYPE_MESSAGE} :
    /\ role = "e2e"
    /\ op.name = "boot"
    /\ hq' = IF type = MSG_TYPE_BROADCAST
             THEN sendBroadcast(HqBegin(hq), m)
             ELSE sendMessage(HqBegin(hq), NODE_ID, m)
    /\ net' = [net EXCEPT !.pending = OnAir(hq'.tx[1].header,
                                            hq'.tx[1].message)]
    /\ op' = Op(IF type = MSG_TYPE_BROADCAST THEN "sendBroadcast"
                ELSE "sendMessage", NODE_ID, m, 0)
    /\ UNCHANGED <<role, lamp>>

NextLong == LongSend \/ E2EReceive

SpecLong == InitE2E /\ [][NextLong]_vars

---------------------------------------------------------------------------
(* What the senders put on a direction, the empty message included *)

\* The longest run of handlers explored by SpecAir.
MaxAirOps == 3

AirMessages == {<<>>, MsgA, MsgB}

\* Packets with a good hash that the lamp forwards: 13- and 15-character
\* headers, from HQ and from a lamp further out.
AirPackets ==
  {<<StandardFrom(HQ_ID, BROADCAST_ID, MSG_TYPE_BROADCAST, m), m>> :
     m \in AirMessages}
  \cup {<<MessageFrom(OTHER_ID, HQ_ID, m, <<"0", "2">>), m>> : m \in AirMessages}

\* The operator has HQ send a broadcast, a targeted message or a message.
AirHqSend ==
  \E m \in AirMessages :
    \E name \in {"sendBroadcast", "sendTargeted", "sendMessage"} :
      /\ role = "hq"
      /\ hq' = CASE name = "sendBroadcast" -> sendBroadcast(HqBegin(hq), m)
                 [] name = "sendTargeted" -> sendTargeted(HqBegin(hq), NODE_ID, m)
                 [] OTHER -> sendMessage(HqBegin(hq), NODE_ID, m)
      /\ op' = Op(name, NODE_ID, m, 0)
      /\ UNCHANGED <<role, lamp, net>>

NextAir ==
  /\ op.count < MaxAirOps
  /\ \/ AirHqSend
     \/ Receive(AirPackets)

SpecAir == Init /\ [][NextAir]_vars

---------------------------------------------------------------------------
(* irReceive, one segment at a time *)

\* The longest run of irReceive calls explored by SpecSeg.
MaxSegCalls == 3

\* A segment of n >= 9 characters with the type character at index 8.
RECURSIVE Zeros(_)
Zeros(n) == IF n = 0 THEN <<>> ELSE <<"0">> \o Zeros(n - 1)

SegmentOf(n, type) == HQ_ID \o BROADCAST_ID \o <<type>> \o Zeros(n - 9)

\* Lines irReceiveString completes: every header length with a type that
\* matches and one that does not, a message, and the empty line.
Segments ==
  {SegmentOf(HEADER_LENGTH_INIT, MSG_TYPE_INIT),
   SegmentOf(HEADER_LENGTH_INIT, MSG_TYPE_SOS),
   SegmentOf(HEADER_LENGTH_SOS, MSG_TYPE_SOS),
   SegmentOf(HEADER_LENGTH_SOS, MSG_TYPE_INIT),
   SegmentOf(HEADER_LENGTH_STANDARD, MSG_TYPE_BROADCAST),
   SegmentOf(HEADER_LENGTH_STANDARD, MSG_TYPE_TARGETED),
   SegmentOf(HEADER_LENGTH_STANDARD, MSG_TYPE_SOS),
   SegmentOf(HEADER_LENGTH_MESSAGE, MSG_TYPE_MESSAGE),
   SegmentOf(HEADER_LENGTH_MESSAGE, MSG_TYPE_BROADCAST),
   MsgA, <<>>}

\* The time between two calls: short, and longer than IR_MESSAGE_TIMEOUT.
SegGaps == {IR_CHAR_GAP, IR_MESSAGE_TIMEOUT + IR_CHAR_GAP}

InitSeg ==
  /\ role = "seg"
  /\ lamp = LampInit
  /\ hq = HqInit
  /\ op = [name |-> "irInit", header |-> <<>>, message |-> <<>>, n |-> 0,
           count |-> 0]
  /\ net = [rx |-> RxInit]

\* A call of irReceive in which irReceiveString completes the line s.
SegLine ==
  \E s \in Segments, dt \in SegGaps :
    /\ role = "seg"
    /\ net' = [net EXCEPT !.rx =
                 Reassemble([net.rx EXCEPT !.now = net.rx.now + dt,
                                           !.line = <<s>>, !.ret = <<>>,
                                           !.paired = FALSE, !.age = 0])]
    /\ op' = Op("irReceive", s, <<>>, dt)
    /\ UNCHANGED <<role, lamp, hq>>

\* A call of irReceive in which irReceiveString completes no line.
SegNone ==
  \E dt \in SegGaps :
    /\ role = "seg"
    /\ net' = [net EXCEPT !.rx =
                 Reassemble([net.rx EXCEPT !.now = net.rx.now + dt,
                                           !.line = <<>>, !.ret = <<>>,
                                           !.paired = FALSE, !.age = 0])]
    /\ op' = Op("irReceive", <<>>, <<>>, dt)
    /\ UNCHANGED <<role, lamp, hq>>

NextSeg == op.count < MaxSegCalls /\ (SegLine \/ SegNone)

SpecSeg == InitSeg /\ [][NextSeg]_vars

---------------------------------------------------------------------------
(* Forwarding of SOS and MESSAGE with every hop field *)

\* The longest run of handlers explored by SpecHop.
MaxHopOps == 2

\* Hop fields on SOS and MESSAGE packets: the low ones, 10, and the highest.
HopValues == WideHops \cup {10}

WideSosPackets ==
  {<<OTHER_ID \o HQ_ID \o <<MSG_TYPE_SOS>> \o Fmt02d(h), <<>>>> :
     h \in HopValues}

WideMessagePackets ==
  {<<MessageFrom(OTHER_ID, HQ_ID, MsgA, Fmt02d(h)), MsgA>> : h \in HopValues}

NextHop ==
  /\ op.count < MaxHopOps
  /\ Receive(WideSosPackets \cup WideMessagePackets \cup InitPackets
               \cup StandardPackets)

SpecHop == InitLamp /\ [][NextHop]_vars

---------------------------------------------------------------------------
(* The modular variant: one node, 13-character headers only *)

\* The longest run of handlers explored by SpecModular.
MaxModularOps == 3

SOS_MESSAGE == <<"H", "E", "L", "P", "!">>

\* The modular node after construction: the cache and the LiFi state.
ModularInit ==
  [cache |-> [i \in 0..(CACHE_SIZE - 1) |-> EmptySlot],
   cacheIndex |-> 0,
   latestLiFiMessage |-> <<>>,
   lastLiFiBroadcastTime |-> 0,
   clock |-> 0,
   tx |-> <<>>, lifi |-> <<>>, calls |-> <<>>]

ModularBegin(L) ==
  [L EXCEPT !.tx = <<>>, !.lifi = <<>>, !.calls = <<>>]

\* irSend of the modular variant: two bursts of 25 ms and a 10 ms gap.
modularIrSend(L, header, message) ==
  [L EXCEPT !.tx = Append(@, [header |-> header, message |-> message,
                              at |-> L.clock]),
            !.clock = L.clock + 60]

\* generateSOS of the modular variant, in the build whose NODE_ID is id.
modularGenerateSOS(L, id) ==
  LET msg == SOS_MESSAGE
      h == SOS_HASH
      header == id \o HQ_ID \o <<MSG_TYPE_SOS>> \o Fmt04X(h)
  IN [modularIrSend(isNew(L, id, h), header, msg)
        EXCEPT !.clock = @ + 200]

\* forwardPacket of the modular variant in a lamp build (NODE_ID is not HQ_ID).
modularForwardPacket(L, header, message) ==
  IF Len(header) # 13 THEN L
  ELSE
    LET src == Substring(header, 0, 4)
        dst == Substring(header, 4, 8)
        type == CharAt(header, 8)
        receivedHash == U16(strtol16(Substring(header, 9, 13)))
    IN
    IF simpleHash(message) # receivedHash THEN L
    ELSE
      LET L2 == isNew(L, src, receivedHash)
          L1 == IF Returned(L2)
                THEN [modularIrSend(L2, header, message)
                        EXCEPT !.clock = @ + 50]
                ELSE L2
      IN
      IF type = MSG_TYPE_BROADCAST /\ dst = BROADCAST_ID
      THEN DeliverLiFi(L1, message)
      ELSE IF type = MSG_TYPE_TARGETED /\ dst = NODE_ID
      THEN DeliverLiFi(L1, message)
      ELSE L1

\* The packets a modular node hears: its neighbours' SOS as generateSOS built
\* them, and 13-character packets with a matching and a non-matching hash.
ModularPackets ==
  {<<src \o dst \o <<type>> \o Fmt04X(simpleHash(MsgA)), m>> :
     src \in {HQ_ID, OTHER_ID}, dst \in {BROADCAST_ID, NODE_ID, HQ_ID},
     type \in {MSG_TYPE_BROADCAST, MSG_TYPE_TARGETED, MSG_TYPE_SOS},
     m \in {MsgA, MsgB}}

\* lamp is the receiving node; net.air holds what its neighbour has sent.
InitModular ==
  /\ role = "modular"
  /\ lamp = ModularInit
  /\ hq = HqInit
  /\ net = [peer |-> ModularInit, air |-> {}]
  /\ op = [name |-> "boot", header |-> <<>>, message |-> <<>>, n |-> 0,
           count |-> 0]

\* loop() at the neighbour (NODE_ID 203b): the SOS button was pressed.
ModularPressSOS ==
  /\ role = "modular"
  /\ LET P == modularGenerateSOS(ModularBegin(net.peer), OTHER_ID) IN
       net' = [peer |-> P,
               air |-> net.air \cup {<<P.tx[1].header, P.tx[1].message>>}]
  /\ op' = Op("generateSOS", <<>>, <<>>, 0)
  /\ UNCHANGED <<role, lamp, hq>>

\* loop() at the node (NODE_ID 102a): irReceive returned a packet.
ModularReceive ==
  \E p \in net.air \cup ModularPackets :
    /\ role = "modular"
    /\ lamp' = modularForwardPacket(ModularBegin(lamp), p[1], p[2])
    /\ op' = Op("forwardPacket", p[1], p[2], 0)
    /\ UNCHANGED <<role, hq, net>>

NextModular ==
  /\ op.count < MaxModularOps
  /\ (ModularPressSOS \/ ModularReceive)

SpecModular == InitModular /\ [][NextModular]_vars

---------------------------------------------------------------------------
(* The lamp's dedup ring under a run of broadcasts, with its history *)

\* The longest run of packets explored by SpecEvict.
MaxEvictOps == 5

\* Broadcasts with six different (src, hash) pairs, each with a good hash.
EvictPackets ==
  {<<StandardFrom(src, BROADCAST_ID, MSG_TYPE_BROADCAST, m), m>> :
     src \in {HQ_ID, OTHER_ID, NODE_ID}, m \in {MsgA, MsgB}}

\* The isNew calls of a handler that returned true, as (src, hash) pairs.
NewPairs(calls) ==
  SelectSeq([k \in 1 .. Len(calls) |->
               [src |-> calls[k].src, hash |-> calls[k].hash,
                ret |-> calls[k].ret]],
            LAMBDA c : c.ret)

\* net.inserted lists the pairs isNew has inserted, oldest first.
InitEvict ==
  /\ role = "evict"
  /\ lamp = LampInit
  /\ hq = HqInit
  /\ op = [name |-> "boot", header |-> <<>>, message |-> <<>>, n |-> 0,
           count |-> 0]
  /\ net = [inserted |-> <<>>]

\* loop(): irReceive returned a broadcast and forwardPacket processes it.
EvictReceive ==
  \E p \in EvictPackets :
    /\ role = "evict"
    /\ op.count < MaxEvictOps
    /\ LET L == forwardPacket(LampBegin(lamp), p[1], p[2]) IN
       /\ lamp' = L
       /\ net' = [inserted |-> net.inserted \o NewPairs(L.calls)]
    /\ op' = Op("forwardPacket", p[1], p[2], 0)
    /\ UNCHANGED <<role, hq>>

NextEvict == EvictReceive

SpecEvict == InitEvict /\ [][NextEvict]_vars

---------------------------------------------------------------------------
(* Claims *)

\* Some slot of the cache holds both src and hash.
Holds(cache, N, src, hash) ==
  \E i \in 0..(N - 1) : cache[i].src = src /\ cache[i].msgHash = hash

\* The contract of one isNew(src, hash) call taking node S to node T.
IsNewContract(S, T, N, src, hash) ==
  /\ Returned(T) = ~Holds(S.cache, N, src, hash)
  /\ Holds(S.cache, N, src, hash) =>
       T.cache = S.cache /\ T.cacheIndex = S.cacheIndex
  /\ ~Holds(S.cache, N, src, hash) =>
       /\ T.cache[S.cacheIndex] = [src |-> src, msgHash |-> hash]
       /\ T.cacheIndex = (S.cacheIndex + 1) % N
       /\ \A i \in 0..(N - 1) : i # S.cacheIndex => T.cache[i] = S.cache[i]

\* C1: isNew returns true exactly when no slot holds both src and hash; it
\* then writes the pair at cacheIndex, advances cacheIndex modulo CACHE_SIZE
\* and touches no other slot; on a match it returns false and changes
\* neither the slots nor cacheIndex.  Lamp (3 slots) and HQ (8 slots).
C1_IsNewContract ==
  [][/\ role = "cache-lamp" =>
          IsNewContract(lamp, lamp', CACHE_SIZE, op'.header, op'.n)
     /\ role = "cache-hq" =>
          IsNewContract(hq, hq', HQ_CACHE_SIZE, op'.header, op'.n)]_vars

\* C1 witness: HQ's ring wrapped: a new pair went into slot 7 of a full ring.
C1_Witness ==
  /\ role = "cache-hq"
  /\ op.name = "isNew"
  /\ op.count > HQ_CACHE_SIZE
  /\ Returned(hq)
  /\ hq.cacheIndex = 0
  /\ hq.cache[HQ_CACHE_SIZE - 1] = [src |-> op.header, msgHash |-> op.n]


\* The fields of a received header, read at the offsets of section 3.
SrcOf(header) == SubSeq(header, 1, 4)
DstOf(header) == SubSeq(header, 5, 8)
IsInit(header) == Len(header) = 9 /\ header[9] = "0"
IsSos(header) == Len(header) = 11 /\ header[9] = "3"
IsMessage(header) == Len(header) = 15 /\ header[9] = "4"
IsStandard(header) == Len(header) = 13 /\ header[9] \in {"1", "2"}
HashOf(header) == IF IsSos(header) \/ IsInit(header) THEN 0
                  ELSE strtol16(SubSeq(header, 10, 13))
HopOf(header) ==
  IF IsSos(header) THEN toInt(SubSeq(header, 10, 11))
  ELSE IF IsMessage(header) THEN toInt(SubSeq(header, 14, 15))
  ELSE toInt(SubSeq(header, 7, 8))

\* The lamp ran forwardPacket on an SOS, or on a MESSAGE with a good hash.
GradientStep(o) ==
  /\ role = "lamp"
  /\ o.name = "forwardPacket"
  /\ \/ IsSos(o.header)
     \/ IsMessage(o.header) /\ simpleHash(o.message) = HashOf(o.header)

\* The handler that took lamp L to lamp T transmitted and enqueued nothing.
NoEmission(L, T) ==
  T.tx = <<>> /\ T.enq = <<>> /\ T.retransmitQueue = L.retransmitQueue

\* Back-flow suppression, and forwarding when the gradient check passes.
BackFlow(L, T, o) ==
  /\ L.myHop > HopOf(o.header) + GRADIENT_TOLERANCE => NoEmission(L, T)
  /\ /\ L.myHop <= HopOf(o.header) + GRADIENT_TOLERANCE
     /\ ~Holds(L.cache, CACHE_SIZE, SrcOf(o.header), HashOf(o.header))
     => Len(T.tx) = 1 /\ Len(T.enq) = 1

\* C2 (as amended): a lamp with myHop > msgHop + K re-emits no SOS or
\* MESSAGE it receives, whatever its cache holds; with myHop <= msgHop + K
\* and a fresh (src, hash) it forwards.  With msgHop 2, myHop 1 and myHop 3
\* forward (3 <= 2 + 1) and myHop 4 does not.
C2_BackFlowSuppression ==
  [][GradientStep(op') =>
       /\ BackFlow(lamp, lamp', op')
       /\ HopOf(op'.header) = 2 /\ lamp.myHop = 4 => NoEmission(lamp, lamp')]_vars

\* C2 witness: a lamp at hop 4 dropped a fresh SOS that carried hop 2.
C2_Witness ==
  /\ GradientStep(op)
  /\ IsSos(op.header)
  /\ HopOf(op.header) = 2
  /\ lamp.myHop = 4
  /\ ~Holds(lamp.cache, CACHE_SIZE, SrcOf(op.header), 0)
  /\ lamp.tx = <<>>

\* C2 as stated: the same, with the example that a lamp at hop 3 does not
\* forward a packet that carries hop 2.
C2_Original ==
  [][GradientStep(op') =>
       /\ BackFlow(lamp, lamp', op')
       /\ HopOf(op'.header) = 2 /\ lamp.myHop = 3 => NoEmission(lamp, lamp')]_vars


\* A packet that carries a (src, hash) pair: an SOS, or a MESSAGE, BROADCAST
\* or TARGETED packet whose message matches the hash of its header.
Deduplicated(o) ==
  \/ IsSos(o.header)
  \/ /\ IsMessage(o.header) \/ IsStandard(o.header)
     /\ simpleHash(o.message) = HashOf(o.header)

\* Handler name received the packet of o, which it also received in the step
\* before, and the pair of the packet is still in the cache.
ReceivedAgain(name, o, before, cache, N) ==
  /\ o.name = name
  /\ before.name = name
  /\ o.header = before.header
  /\ o.message = before.message
  /\ Deduplicated(o)
  /\ Holds(cache, N, SrcOf(o.header), HashOf(o.header))

\* C3: a packet received a second time while its (src, hash) pair is in the
\* cache is neither forwarded nor delivered locally again: the lamp leaves
\* the LiFi state alone and does not call lifiTransmit, HQ reports nothing
\* to the host.
C3_DuplicatesDeliverOnce ==
  [][/\ role = "lamp"
        /\ ReceivedAgain("forwardPacket", op', op, lamp.cache, CACHE_SIZE)
        => /\ lamp'.tx = <<>>
           /\ lamp'.lifi = <<>>
           /\ lamp'.latestLiFiMessage = lamp.latestLiFiMessage
           /\ lamp'.lastLiFiBroadcastTime = lamp.lastLiFiBroadcastTime
     /\ role = "hq"
        /\ ReceivedAgain("processPacket", op', op, hq.cache, HQ_CACHE_SIZE)
        => hq'.tx = <<>> /\ hq'.host = <<>>]_vars


InitIdOf(header) == SubSeq(header, 5, 6)

\* The lamp ran forwardPacket on an INIT packet.
InitStep(o) == role = "lamp" /\ o.name = "forwardPacket" /\ IsInit(o.header)

\* The INIT header a lamp emits for epoch id with the hop field hop.
InitWith(id, hop) == HQ_ID \o id \o hop \o <<"0">>

\* C4: processInit on an INIT of the lamp's epoch sets myHop to receivedHop + 1
\* exactly when receivedHop < myHop - 1 and leaves lastInitID; on another
\* initId it sets lastInitID to it and myHop to receivedHop + 1.  HQ's INIT
\* (hop 00) of a new epoch leaves myHop = 1.
C4_GradientUpdate ==
  [][InitStep(op') =>
       LET id == InitIdOf(op'.header)
           receivedHop == HopOf(op'.header)
       IN
       /\ id = lamp.lastInitID =>
            /\ lamp'.lastInitID = lamp.lastInitID
            /\ lamp'.myHop = IF receivedHop < lamp.myHop - 1
                             THEN receivedHop + 1 ELSE lamp.myHop
       /\ id # lamp.lastInitID =>
            /\ lamp'.lastInitID = id
            /\ lamp'.myHop = receivedHop + 1
            /\ receivedHop = 0 => lamp'.myHop = 1]_vars

\* C4 witness: after epoch 01 at hop 00 (myHop 1), an INIT of the same epoch
\* with hop 03 left myHop at 1.
C4_Witness ==
  /\ role = "lamp"
  /\ op.count = 2
  /\ op.header = InitWith(<<"0", "1">>, <<"0", "3">>)
  /\ lamp.retransmitQueue[0].header = InitWith(<<"0", "1">>, <<"0", "1">>)
  /\ lamp.lastInitID = <<"0", "1">>
  /\ lamp.myHop = 1

\* C5: across every step that leaves lastInitID unchanged, myHop does not
\* increase; and only an INIT packet changes myHop or lastInitID (no other
\* packet type, no retransmit tick, no SOS origination).
C5_GradientMonotone ==
  [][/\ lamp'.lastInitID = lamp.lastInitID => lamp'.myHop <= lamp.myHop
     /\ ~InitStep(op') =>
          lamp'.myHop = lamp.myHop /\ lamp'.lastInitID = lamp.lastInitID]_vars

\* C5 witness: within epoch 01 the lamp went from hop 4 to hop 1.
C5_Witness ==
  /\ role = "lamp"
  /\ op.count = 2
  /\ lamp.retransmitQueue[0].header = InitWith(<<"0", "1">>, <<"0", "4">>)
  /\ lamp.retransmitQueue[1].header = InitWith(<<"0", "1">>, <<"0", "1">>)
  /\ lamp.lastInitID = <<"0", "1">>
  /\ lamp.myHop = 1

\* The slots of the retransmission queue.
Slots == 0 .. (RETRANSMIT_QUEUE_SIZE - 1)

Occurrences(seq, x) == Cardinality({k \in 1 .. Len(seq) : seq[k] = x})

SentCountBound(L) ==
  \A i \in Slots :
    L.retransmitQueue[i].active =>
      L.retransmitQueue[i].sentCount \in 1 .. RETRANSMIT_COUNT

\* sentCount is the number of bursts of the entry: every burst of a handler
\* is the first burst of an entry it enqueues (or finds no slot for) or a
\* retransmission of a slot, a slot filled by the handler has sentCount 1, and
\* any other slot's sentCount grows by the retransmissions of that slot, which
\* only an active slot has.
EmissionsCounted(before, after) ==
  /\ Len(after.tx) = Len(after.enq) + Len(after.retx)
  /\ \A i \in Slots :
       LET k == Occurrences(after.retx, i) IN
       IF Occurrences(after.enq, i) > 0
       THEN /\ Occurrences(after.enq, i) = 1
            /\ k = 0
            /\ after.retransmitQueue[i].sentCount = 1
       ELSE /\ k <= 1
            /\ after.retransmitQueue[i].sentCount
                 = before.retransmitQueue[i].sentCount + k
            /\ k > 0 => before.retransmitQueue[i].active

\* C6: whatever the schedule of pumps and the time between them, an active
\* slot of the lamp's retransmission queue has 1 <= sentCount <=
\* RETRANSMIT_COUNT, and sentCount counts every burst of the entry, the first
\* one included, so that an entry is emitted at most RETRANSMIT_COUNT times.
C6_RetransmitEmissionBound ==
  [][role = "lamp" => SentCountBound(lamp') /\ EmissionsCounted(lamp, lamp')]_vars

\* A pump found an entry that is inside its window and whose next interval
\* has passed, and sent nothing because sentCount is RETRANSMIT_COUNT.
C6_Witness ==
  /\ role = "lamp"
  /\ op.name = "processRetransmitQueue"
  /\ lamp.tx = <<>>
  /\ \E i \in Slots :
       LET e == lamp.retransmitQueue[i] IN
       /\ e.active
       /\ e.sentCount = RETRANSMIT_COUNT
       /\ lamp.clock - e.firstSentTime >= RETRANSMIT_COUNT * RETRANSMIT_INTERVAL
       /\ lamp.clock - e.firstSentTime <= REDUNDANCY_WINDOW

\* No slot is active once more than REDUNDANCY_WINDOW has passed since its
\* firstSentTime.
LifetimeBound(L) ==
  \A i \in Slots :
    L.retransmitQueue[i].active =>
      L.clock - L.retransmitQueue[i].firstSentTime <= REDUNDANCY_WINDOW

\* The k-th burst of a pump is the retransmission of slot after.retx[k]; it
\* starts no later than REDUNDANCY_WINDOW after the entry's firstSentTime.
NoLateRetransmission(before, after) ==
  \A k \in 1 .. Len(after.retx) :
    after.tx[k].at - before.retransmitQueue[after.retx[k]].firstSentTime
      <= REDUNDANCY_WINDOW

\* C7: an entry of the lamp's retransmission queue is active for at most
\* REDUNDANCY_WINDOW after its firstSentTime: after every handler no active
\* slot is older than the window, and no pump starts a retransmission of an
\* entry after the entry's window has elapsed.
C7_RetransmitLifetimeBound ==
  [][role = "lamp" =>
       /\ LifetimeBound(lamp')
       /\ (op'.name = "processRetransmitQueue" =>
             NoLateRetransmission(lamp, lamp'))]_vars

\* The second half of C7 on its own.
RetransmissionsInsideWindow ==
  [][role = "lamp" /\ op'.name = "processRetransmitQueue" =>
       NoLateRetransmission(lamp, lamp')]_vars

\* Every burst of a handler has an enqueue attempt made when the burst ended:
\* with a slot free before the handler the entry sits in a slot with
\* sentCount 1 and firstSentTime the time the burst ended, with no slot free
\* the queue is as it was.
EnqueuedOnSend(before, after) ==
  /\ Len(after.enq) = Len(after.tx)
  /\ \A k \in 1 .. Len(after.tx) :
       LET t == after.tx[k]
           i == after.enq[k]
       IN
       IF \E j \in Slots : ~before.retransmitQueue[j].active
       THEN /\ i \in Slots
            /\ ~before.retransmitQueue[i].active
            /\ after.retransmitQueue[i] =
                 [header |-> t.header, message |-> t.message,
                  firstSentTime |-> t.at + BurstTime(t.header, t.message),
                  sentCount |-> 1, active |-> TRUE]
       ELSE /\ i = RETRANSMIT_QUEUE_SIZE
            /\ after.retransmitQueue = before.retransmitQueue

LampEnqueues ==
  role = "lamp" /\ op'.name \in {"forwardPacket", "generateSOS"} =>
    EnqueuedOnSend(lamp, lamp')

CopyOfKnownEpoch(n) ==
  /\ role = "mesh"
  /\ op'.name = "forwardPacket"
  /\ op'.node = n
  /\ IsInit(op'.header)
  /\ InitIdOf(op'.header) = net.lamps[n].lastInitID

\* C9: in a mesh of HQ and two lamps that hear each other, the dedup cache
\* and the epoch bound the INIT flood: a lamp that has processed an INIT of
\* epoch E emits nothing for a further copy of epoch E that reaches it.
C9_InitFloodBounded ==
  [][\A n \in MeshLamps : CopyOfKnownEpoch(n) => net'.lamps[n].tx = <<>>]_vars

\* The handler's isNew calls include one for the packet that returned true.
DedupPassed(calls, header) ==
  \E k \in 1 .. Len(calls) :
    /\ calls[k].src = SrcOf(header)
    /\ calls[k].hash = HashOf(header)
    /\ calls[k].ret

\* C10: a node re-emits a received packet of any type (INIT, BROADCAST,
\* TARGETED, SOS, MESSAGE) only if the handler that processes the packet
\* called isNew for it and isNew returned true.
C10_ForwardRequiresDedup ==
  [][/\ (role = "lamp" /\ op'.name = "forwardPacket" /\ lamp'.tx # <<>> =>
           DedupPassed(lamp'.calls, op'.header))
     /\ (role = "hq" /\ op'.name = "processPacket" /\ hq'.tx # <<>> =>
           DedupPassed(hq'.calls, op'.header))]_vars

\* The pairs isNew is called with: a 4-character source and a 16-bit hash.
OfferedPairs == LampPairs \cup {HqPairs[k] : k \in 1 .. Len(HqPairs)}

\* The slots of an N-slot cache that hold the pair p.
Matching(cache, N, p) ==
  {i \in 0 .. (N - 1) : cache[i].src = p.src /\ cache[i].msgHash = p.hash}

CacheUnique(S, N) ==
  /\ S.cacheIndex \in 0 .. (N - 1)
  /\ \A p \in OfferedPairs : Cardinality(Matching(S.cache, N, p)) <= 1

RECURSIVE ApplyAll(_, _)
ApplyAll(L, S) ==
  IF S = <<>> THEN L
  ELSE ApplyAll(isNew(L, TwicePairs[Head(S)].src, TwicePairs[Head(S)].hash),
                Tail(S))

Once == ApplyAll(LampInit, op.S)

TwiceDone == role = "twice" /\ Len(op.S) > 0 /\ op.count = 2 * Len(op.S)

\* The slots of T are those of L shifted round the ring by some r.
RotationOf(L, T) ==
  \E r \in 0 .. (CACHE_SIZE - 1) :
    \A i \in 0 .. (CACHE_SIZE - 1) :
      T.cache[i] = L.cache[(i + r) % CACHE_SIZE]

\* C12: from the zero-initialised cache, isNew over a sequence S of at most
\* CACHE_SIZE distinct pairs followed by S again leaves the slots and
\* cacheIndex exactly as isNew over S once leaves them.
C12_DedupIdempotence ==
  TwiceDone /\ Distinct(op.S) <= CACHE_SIZE =>
    /\ lamp.cache = Once.cache
    /\ lamp.cacheIndex = Once.cacheIndex

\* A sequence longer than the ring with as many distinct pairs as the ring
\* has slots went through isNew twice.
C12_Witness ==
  /\ TwiceDone
  /\ Distinct(op.S) = CACHE_SIZE
  /\ Len(op.S) > CACHE_SIZE
  /\ ~Returned(lamp)

\* C12 as stated: for every sequence S, with more distinct pairs than
\* CACHE_SIZE too, S followed by S leaves a rotation of what S leaves.
C12_Original == TwiceDone => RotationOf(Once, lamp)

\* simpleHash(m) is 0 for the empty message and otherwise 31 times the hash
\* of m without its last byte, plus that byte, modulo 2^16.
HashRecurrence ==
  role = "hash" =>
    /\ op.n \in 0 .. 65535
    /\ op.n = IF op.message = <<>> THEN 0
              ELSE (31 * simpleHash(SubSeq(op.message, 1, Len(op.message) - 1))
                    + CharCode(op.message[Len(op.message)])) % 65536

\* The pinned vectors: hash("") = 0x0000, hash("A") = 0x0041 and
\* hash("HELP!") = SOS_HASH.
HashVectors ==
  role = "hash" =>
    /\ op.message = <<>> => op.n = 0
    /\ op.message = <<"A">> => op.n = 65
    /\ op.message = <<"H", "E", "L", "P", "!">> => op.n = SOS_HASH

\* C13: simpleHash computes h := (31 * h + byte) mod 2^16 from h = 0 over the
\* bytes of the message, and returns 0x0000 for "", 0x0041 for "A" and
\* 0x28F9, the value of SOS_HASH, for "HELP!".
C13_SimpleHash == HashRecurrence /\ HashVectors

\* The header the originator of this run emitted.
Emitted == IF op.name = "generateSOS" THEN lamp.tx[1].header ELSE hq.tx[1].header

\* What the receiving handlers read from the emitted header is what the
\* originator was given.
RoundTrip ==
  CASE op.name = "generateSOS" ->
         /\ ParseSrc(Emitted) = NODE_ID
         /\ ParseDst(Emitted) = HQ_ID
         /\ ParseType(Emitted) = MSG_TYPE_SOS
         /\ Len(Emitted) = HEADER_LENGTH_SOS
         /\ ParseSosHop(Emitted) = op.n
    [] op.name = "sendInit" ->
         /\ ParseSrc(Emitted) = HQ_ID
         /\ ParseInitId(Emitted) = op.header
         /\ ParseInitHop(Emitted) = HQ_HOP
         /\ ParseType(Emitted) = MSG_TYPE_INIT
         /\ Len(Emitted) = HEADER_LENGTH_INIT
    [] op.name \in {"sendBroadcast", "sendTargeted"} ->
         /\ ParseSrc(Emitted) = HQ_ID
         /\ ParseDst(Emitted) = op.header
         /\ ParseType(Emitted) = IF op.name = "sendBroadcast"
                                 THEN MSG_TYPE_BROADCAST ELSE MSG_TYPE_TARGETED
         /\ Len(Emitted) = HEADER_LENGTH_STANDARD
         /\ ParseHash(Emitted) = simpleHash(op.message)
    [] op.name = "sendMessage" ->
         /\ ParseSrc(Emitted) = HQ_ID
         /\ ParseDst(Emitted) = op.header
         /\ ParseType(Emitted) = MSG_TYPE_MESSAGE
         /\ Len(Emitted) = HEADER_LENGTH_MESSAGE
         /\ ParseHash(Emitted) = simpleHash(op.message)
         /\ ParseMessageHop(Emitted) = HQ_HOP
    [] op.name = "sprintf" ->
         /\ Len(op.header) = 4
         /\ U16(strtol16(op.header)) = op.n

\* C14: for every packet an originator builds (generateSOS with myHop in
\* 0..99; sendInit, sendBroadcast, sendTargeted, sendMessage of HQ with any
\* destination and message), reading the emitted header at the offsets of
\* forwardPacket, processInit and processPacket gives back the src, dst or
\* initId, type, hash and hop that went into it.
C14_RoundTrip == role = "codec" /\ op.count > 0 => RoundTrip

\* HQ sent a MESSAGE whose hash has a leading zero and a hexadecimal letter.
C14_Witness ==
  /\ role = "codec"
  /\ op.name = "sendMessage"
  /\ op.header = OTHER_ID
  /\ simpleHash(op.message) < 4096
  /\ \E i \in 10 .. 13 : Emitted[i] \in {"A", "B", "C", "D", "E", "F"}
  /\ RoundTrip

\* Two decimal digits at positions i and i + 1 of the header.
TwoDigits(header, i) == IsDec(header[i]) /\ IsDec(header[i + 1])

\* The length/type contract of a header (positions counted from 1).
WellFormed(header) ==
  \/ Len(header) = 9 /\ header[9] = "0" /\ TwoDigits(header, 7)
  \/ Len(header) = 11 /\ header[9] = "3" /\ TwoDigits(header, 10)
  \/ Len(header) = 13 /\ header[9] \in {"1", "2"}
  \/ Len(header) = 15 /\ header[9] = "4" /\ TwoDigits(header, 14)

\* C15: every header a node emits, originated or re-emitted, meets its
\* length/type contract: INIT 9 characters with '0' at index 8, SOS 11 with
\* '3', BROADCAST/TARGETED 13, MESSAGE 15, every hop field two decimal
\* digits; for every received hop 00..99 and every myHop the lamp reaches.
C15_HeaderContract ==
  /\ \A k \in 1 .. Len(lamp.tx) : WellFormed(lamp.tx[k].header)
  /\ \A k \in 1 .. Len(hq.tx) : WellFormed(hq.tx[k].header)

\* The contract on every header whose hop is below 100.
HeaderContractBelow100 ==
  /\ \A k \in 1 .. Len(lamp.tx) :
       WellFormed(lamp.tx[k].header)
         \/ (op.name = "forwardPacket" /\ HopOf(op.header) = 99)
         \/ (op.name = "generateSOS" /\ lamp.myHop > 99)
  /\ \A k \in 1 .. Len(hq.tx) : WellFormed(hq.tx[k].header)

\* The characters of one direction of a burst, on its pin.
RECURSIVE OnPin(_, _)
OnPin(s, pin) ==
  IF s = <<>> THEN <<>>
  ELSE <<[pin |-> pin, c |-> Head(s), running |-> FALSE]>>
         \o OnPin(Tail(s), pin)

DirectionOf(header, message, pin) ==
  OnPin(WithDelim(header), pin)
    \o (IF Len(message) > 0 THEN OnPin(WithDelim(message), pin) ELSE <<>>)

\* A whole burst: FRONT, RIGHT, BACK, LEFT, every character sent with the
\* receiver stopped.
WholeBurst(header, message) ==
  DirectionOf(header, message, "FRONT") \o DirectionOf(header, message, "RIGHT")
    \o DirectionOf(header, message, "BACK")
    \o DirectionOf(header, message, "LEFT")

\* sent is the beginning of the burst.
IsPrefix(s, t) == Len(s) <= Len(t) /\ s = SubSeq(t, 1, Len(s))

\* C16: the receiver is stopped before the first character of a burst, stays
\* stopped while the four directions FRONT, RIGHT, BACK, LEFT send the header
\* and the optional message, and runs again after the last direction: no
\* character is sent while the receiver runs, and after every completed
\* burst, first transmission or retransmission, the receiver runs.
C16_RxGating ==
  role = "tx" =>
    /\ \A k \in 1 .. Len(net.sent) : ~net.sent[k].running
    /\ net.pc # "idle" => ~net.running
    /\ net.pc = "idle" => net.running
    /\ IsPrefix(net.sent, WholeBurst(net.header, net.message))
    /\ (net.pc = "idle" /\ net.bursts > 0) =>
         net.sent = WholeBurst(net.header, net.message)

\* A retransmission with a message has been sent in full.
C16_Witness ==
  /\ role = "tx"
  /\ net.pc = "idle"
  /\ net.bursts = 2
  /\ net.caller = "processRetransmitQueue"
  /\ net.message # <<>>
  /\ Len(net.sent) = 4 * (Len(net.header) + Len(net.message) + 2)
  /\ net.running

\* C17: a pending 13- or 15-character header is never paired with a segment
\* that completes more than IR_MESSAGE_TIMEOUT after the header was stamped;
\* after that time the header is dropped and the next segment is read from
\* IDLE, so a 13-character header that completes after the timeout becomes
\* the pending header of a fresh packet.
C17_PendingHeaderTimeout ==
  (role = "rx" /\ net.rx.paired) => net.rx.age <= IR_MESSAGE_TIMEOUT

\* A call that completes no line drops any header older than the timeout.
IdleCallDropsLateHeader ==
  (role = "rx" /\ net.rx.line = <<>> /\ net.rx.waitingForMessage) =>
    net.rx.now - net.rx.headerReceivedTime <= IR_MESSAGE_TIMEOUT

\* The lamp ran forwardPacket on an SOS whose source is the lamp itself.
OwnSos(o) ==
  /\ role = "lamp"
  /\ o.name = "forwardPacket"
  /\ IsSos(o.header)
  /\ SrcOf(o.header) = NODE_ID

\* C18: generateSOS leaves (NODE_ID, 0) in the dedup cache, and while that
\* pair is in the cache the lamp does not forward an SOS whose source is its
\* own id: no burst, no queue entry.
C18_OwnSosNeverRebounds ==
  [][/\ (role = "lamp" /\ op'.name = "generateSOS" =>
           Holds(lamp'.cache, CACHE_SIZE, NODE_ID, 0))
     /\ (OwnSos(op') /\ Holds(lamp.cache, CACHE_SIZE, NODE_ID, 0) =>
           NoEmission(lamp, lamp'))]_vars

\* The lamp, one hop from HQ, pressed SOS and then received its own SOS back
\* with a hop field that passes the gradient check: isNew returned false and
\* nothing was sent; the queue holds the SOS it originated and nothing newer.
C18_Witness ==
  /\ OwnSos(op)
  /\ op.count = 3
  /\ lamp.myHop <= HopOf(op.header) + GRADIENT_TOLERANCE
  /\ lamp.calls = <<[src |-> NODE_ID, hash |-> 0, ret |-> FALSE]>>
  /\ lamp.tx = <<>>
  /\ lamp.retransmitQueue[1].header = SosHeader(lamp)
  /\ ~lamp.retransmitQueue[2].active

\* A node received an SOS.
LampSos(o) == role = "lamp" /\ o.name = "forwardPacket" /\ IsSos(o.header)
HqSos(o) == role = "hq" /\ o.name = "processPacket" /\ IsSos(o.header)

\* The lamp forwarded the SOS of o: one burst with the hop decremented, one
\* queue entry if a slot was free, and the source's pair now in the cache.
ForwardedOnce(before, after, o) ==
  /\ Len(after.tx) = 1
  /\ SrcOf(after.tx[1].header) = SrcOf(o.header)
  /\ IsSos(after.tx[1].header)
  /\ HopOf(after.tx[1].header) = DecrementedHop(HopOf(o.header))
  /\ EnqueuedOnSend(before, after)
  /\ Holds(after.cache, CACHE_SIZE, SrcOf(o.header), 0)

\* The lamp dropped the SOS: nothing sent, nothing enqueued, cache as it was.
Dropped(before, after) ==
  /\ NoEmission(before, after)
  /\ after.cache = before.cache
  /\ after.cacheIndex = before.cacheIndex

\* HQ's part: only an SOS whose source has no pair in the cache is reported.
HqReportsFirst ==
  HqSos(op') =>
    IF Holds(hq.cache, HQ_CACHE_SIZE, SrcOf(op'.header), 0)
    THEN hq'.host = <<>> /\ hq'.cache = hq.cache
    ELSE /\ Len(hq'.host) = 1
         /\ hq'.host[1].src = SrcOf(op'.header)
         /\ Holds(hq'.cache, HQ_CACHE_SIZE, SrcOf(op'.header), 0)

\* C19: of the SOS packets with source X that reach a lamp while (X, 0) is
\* not evicted, the lamp forwards one: the first that passes the gradient
\* check inserts (X, 0) and is forwarded with one burst and, if a slot is
\* free, one queue entry, every arrival after it is dropped; an arrival that fails the gradient
\* check is dropped and leaves the cache alone.  HQ reports the first arrival
\* only.
C19_SosStormSuppression ==
  [][/\ LampSos(op') =>
          IF Holds(lamp.cache, CACHE_SIZE, SrcOf(op'.header), 0)
          THEN Dropped(lamp, lamp')
          ELSE IF lamp.myHop <= HopOf(op'.header) + GRADIENT_TOLERANCE
          THEN ForwardedOnce(lamp, lamp', op')
          ELSE Dropped(lamp, lamp')
     /\ HqReportsFirst]_vars

\* The lamp forwarded the SOS of 203b with hop 02 as hop 01, and dropped the
\* next arrival of an SOS of 203b.
C19_Witness ==
  /\ LampSos(op)
  /\ op.count = 3
  /\ SrcOf(op.header) = OTHER_ID
  /\ lamp.calls = <<[src |-> OTHER_ID, hash |-> 0, ret |-> FALSE]>>
  /\ lamp.tx = <<>>
  /\ lamp.retransmitQueue[1].header =
       OTHER_ID \o HQ_ID \o <<MSG_TYPE_SOS>> \o <<"0", "1">>
  /\ ~lamp.retransmitQueue[2].active

\* C19 as stated: the first arrival, whatever the lamp's hop, inserts (X, 0)
\* and is forwarded.
C19_Original ==
  [][/\ LampSos(op') =>
          IF Holds(lamp.cache, CACHE_SIZE, SrcOf(op'.header), 0)
          THEN Dropped(lamp, lamp')
          ELSE ForwardedOnce(lamp, lamp', op')
     /\ HqReportsFirst]_vars

\* The packet of o is authorized HQ traffic for this lamp: 13 characters, the
\* hash of the message in the header, source HQ_ID, and type '1' to FFFF or
\* type '2' to NODE_ID.
Authorized(o) ==
  /\ Len(o.header) = HEADER_LENGTH_STANDARD
  /\ simpleHash(o.message) = strtol16(SubSeq(o.header, 10, 13))
  /\ SrcOf(o.header) = HQ_ID
  /\ \/ o.header[9] = MSG_TYPE_BROADCAST /\ DstOf(o.header) = BROADCAST_ID
     \/ o.header[9] = MSG_TYPE_TARGETED /\ DstOf(o.header) = NODE_ID

\* C20: latestLiFiMessage and lastLiFiBroadcastTime change and lifiTransmit
\* is called only for a packet that passed the hash check, has source HQ_ID
\* and is type '1' to FFFF or type '2' to the lamp's NODE_ID; every other
\* packet leaves the LiFi state as it was.
C20_AuthorizedLocalDelivery ==
  [][role = "lamp" /\ op'.name = "forwardPacket" =>
       IF Authorized(op')
       THEN /\ lamp'.lifi = <<op'.message>>
            /\ lamp'.latestLiFiMessage = op'.message
       ELSE /\ lamp'.lifi = <<>>
            /\ lamp'.latestLiFiMessage = lamp.latestLiFiMessage
            /\ lamp'.lastLiFiBroadcastTime = lamp.lastLiFiBroadcastTime]_vars

\* After a broadcast of HQ was delivered, a type '1' packet to FFFF with a
\* good hash from 203b was forwarded and left the LiFi state alone.
C20_Witness ==
  /\ role = "lamp"
  /\ op.name = "forwardPacket"
  /\ op.count = 2
  /\ Len(op.header) = HEADER_LENGTH_STANDARD
  /\ SrcOf(op.header) = OTHER_ID
  /\ DstOf(op.header) = BROADCAST_ID
  /\ op.header[9] = MSG_TYPE_BROADCAST
  /\ op.message = MsgA
  /\ Len(lamp.tx) = 1
  /\ lamp.lifi = <<>>
  /\ lamp.latestLiFiMessage = MsgA
  /\ lamp.lastLiFiBroadcastTime > 0

\* Four uppercase hexadecimal digits.
UpperHex4(s) ==
  Len(s) = 4 /\ \A i \in 1 .. 4 : \E j \in 1 .. 16 : HexDigits[j] = s[i]

\* HQ sent one burst: 000h FFFF '1', the hash of the message in four
\* uppercase hexadecimal digits, and the message.
HqBroadcastSent ==
  /\ Len(hq.tx) = 1
  /\ hq.tx[1].message = op.message
  /\ Len(hq.tx[1].header) = HEADER_LENGTH_STANDARD
  /\ SubSeq(hq.tx[1].header, 1, 9)
       = HQ_ID \o BROADCAST_ID \o <<MSG_TYPE_BROADCAST>>
  /\ UpperHex4(SubSeq(hq.tx[1].header, 10, 13))
  /\ strtol16(SubSeq(hq.tx[1].header, 10, 13)) = simpleHash(op.message)

\* The lamp heard everything: one packet reassembled, forwarded once, LiFi
\* driven once with the message HQ sent.
LampDelivered ==
  /\ net.packets = <<<<hq.tx[1].header, op.message>>>>
  /\ Len(net.forwards) = 1
  /\ net.forwards[1].header = hq.tx[1].header
  /\ net.forwards[1].message = op.message
  /\ net.lifi = <<op.message>>

\* C21: for a message HQ sends with sendBroadcast (among them the 21
\* characters of "Evacuation route open"), HQ emits 000h FFFF '1' with four
\* uppercase hexadecimal digits of simpleHash(message) and then the message,
\* and an adjacent lamp that receives every character reassembles one packet,
\* passes the hash check, forwards it once and drives LiFi with exactly the
\* message.
C21_EndToEndBroadcast ==
  (role = "e2e" /\ op.name # "boot") =>
    /\ HqBroadcastSent
    /\ net.pending = <<>> => LampDelivered

\* The same for the messages without a space.
EndToEndWithoutSpaces ==
  (role = "e2e" /\ op.name # "boot" /\ \A i \in 1 .. Len(op.message) :
                                         op.message[i] # " ") =>
    /\ HqBroadcastSent
    /\ net.pending = <<>> => LampDelivered

\* C22: a lamp, whose NODE_ID is not HQ_ID, never performs the HQ local
\* action for an SOS or MESSAGE, whatever its dst; HQ's processPacket never
\* re-emits a received packet (no burst, no queue entry) and for received
\* types 0, 1 and 2 leaves HQ's dedup cache as it was.
C22_RoleSeparation ==
  [][/\ (role = "lamp" /\ op'.name = "forwardPacket" => lamp'.alert = <<>>)
     /\ (role = "hq" /\ op'.name = "processPacket" =>
           /\ hq'.tx = <<>>
           /\ hq'.enq = <<>>
           /\ op'.header[9] \in {MSG_TYPE_INIT, MSG_TYPE_BROADCAST,
                                 MSG_TYPE_TARGETED} =>
                hq'.cache = hq.cache /\ hq'.cacheIndex = hq.cacheIndex)]_vars

\* HQ, having reported an SOS, received an INIT: nothing sent, no isNew call,
\* the pair of the SOS still the only one in the cache.
C22_Witness ==
  /\ role = "hq"
  /\ op.name = "processPacket"
  /\ op.count = 2
  /\ IsInit(op.header)
  /\ hq.tx = <<>>
  /\ hq.calls = <<>>
  /\ hq.cacheIndex = 1
  /\ hq.cache[0].msgHash = 0
  /\ hq.cache[0].src \in {NODE_ID, OTHER_ID}

\* The header's length is the one of its type character.
LengthMatchesType(header) ==
  IsInit(header) \/ IsSos(header) \/ IsStandard(header) \/ IsMessage(header)

\* C23: forwardPacket forwards or delivers a packet only when the length of
\* its header matches its type character (9 with '0', 11 with '3', 13 with
\* '1' or '2', 15 with '4'); a header whose length and type disagree is
\* rejected: no emission, no cache insertion, no queue entry, no delivery.
C23_LengthAgainstType ==
  [][(role = "lamp" /\ op'.name = "forwardPacket"
        /\ ~LengthMatchesType(op'.header)) =>
       /\ Dropped(lamp, lamp')
       /\ lamp'.lifi = <<>>]_vars

\* A header of 13 characters whose type is not '1' or '2' is rejected when
\* its hash field is not the hash of the message.
MismatchRejectedOutside13 ==
  [][(role = "lamp" /\ op'.name = "forwardPacket"
        /\ ~LengthMatchesType(op'.header)
        /\ (Len(op'.header) = HEADER_LENGTH_STANDARD =>
              simpleHash(op'.message) # HashOf(op'.header))) =>
       /\ Dropped(lamp, lamp')
       /\ lamp'.lifi = <<>>]_vars

\* The packet of o carries a hash, and it is not the hash of its message.
IntegrityFailure(o) ==
  /\ IsStandard(o.header) \/ IsMessage(o.header)
  /\ simpleHash(o.message) # HashOf(o.header)

\* C24: a BROADCAST, TARGETED or MESSAGE packet whose hash field differs
\* from simpleHash(message) is discarded by forwardPacket (lamp) and by
\* processPacket (HQ): dedup cache, cacheIndex, retransmit queue, gradient
\* state and LiFi state unchanged, no emission, no local delivery.
C24_IntegrityFailure ==
  [][/\ (role = "lamp" /\ op'.name = "forwardPacket"
           /\ IntegrityFailure(op')) =>
          /\ Dropped(lamp, lamp')
          /\ lamp'.calls = <<>>
          /\ lamp'.myHop = lamp.myHop
          /\ lamp'.lastInitID = lamp.lastInitID
          /\ lamp'.latestLiFiMessage = lamp.latestLiFiMessage
          /\ lamp'.lastLiFiBroadcastTime = lamp.lastLiFiBroadcastTime
          /\ lamp'.lifi = <<>>
          /\ lamp'.alert = <<>>
     /\ (role = "hq" /\ op'.name = "processPacket"
           /\ IntegrityFailure(op')) =>
          /\ hq'.cache = hq.cache
          /\ hq'.cacheIndex = hq.cacheIndex
          /\ hq'.calls = <<>>
          /\ hq'.tx = <<>>
          /\ hq'.host = <<>>]_vars

\* The lamp, holding a delivered broadcast and one queue entry, received a
\* broadcast of HQ to FFFF whose hash field is not the hash of its message:
\* no isNew call, nothing sent, nothing delivered.
C24_Witness ==
  /\ role = "lamp"
  /\ op.name = "forwardPacket"
  /\ op.count = 2
  /\ IsStandard(op.header)
  /\ SrcOf(op.header) = HQ_ID
  /\ DstOf(op.header) = BROADCAST_ID
  /\ IntegrityFailure(op)
  /\ ~Holds(lamp.cache, CACHE_SIZE, HQ_ID, simpleHash(op.message))
  /\ lamp.calls = <<>>
  /\ lamp.tx = <<>>
  /\ lamp.lifi = <<>>
  /\ lamp.latestLiFiMessage = MsgA
  /\ lamp.cacheIndex = 1
  /\ lamp.retransmitQueue[0].active

\* irReceive completed the line s in this step.
Completed(s) == role = "seg" /\ net'.rx.line = <<s>>

\* irReceive returned the header-only packet s and is in IDLE.
EmittedAlone(s) ==
  /\ net'.rx.ret = <<s, <<>>>>
  /\ ~net'.rx.waitingForMessage
  /\ net'.rx.receivedHeader = <<>>

\* C25: in IDLE a segment of 9 characters with '0' at index 8 is emitted as
\* INIT and one of 11 characters with '3' at index 8 as SOS; a segment of 13
\* or 15 characters becomes the pending header, stamped, only when its type
\* character matches the length ('1' or '2' for 13, '4' for 15); every other
\* segment is discarded and the state stays IDLE.
C25_RxIdle ==
  [][\A s \in Segments :
       (Completed(s) /\ ~net.rx.waitingForMessage) =>
         IF IsInit(s) \/ IsSos(s) THEN EmittedAlone(s)
         ELSE IF IsStandard(s) \/ IsMessage(s)
         THEN /\ net'.rx.ret = <<>>
              /\ net'.rx.waitingForMessage
              /\ net'.rx.receivedHeader = s
              /\ net'.rx.headerReceivedTime = net'.rx.now
         ELSE /\ net'.rx.ret = <<>>
              /\ ~net'.rx.waitingForMessage]_vars

\* C25 for the segments whose length is not 13 or 15, and for those of 13 or
\* 15 characters whose type matches.
RxIdleOtherwise ==
  [][\A s \in Segments :
       (Completed(s) /\ ~net.rx.waitingForMessage
          /\ (Len(s) \in {HEADER_LENGTH_STANDARD, HEADER_LENGTH_MESSAGE} =>
                IsStandard(s) \/ IsMessage(s))) =>
         IF IsInit(s) \/ IsSos(s) THEN EmittedAlone(s)
         ELSE IF IsStandard(s) \/ IsMessage(s)
         THEN /\ net'.rx.ret = <<>>
              /\ net'.rx.waitingForMessage
              /\ net'.rx.receivedHeader = s
              /\ net'.rx.headerReceivedTime = net'.rx.now
         ELSE /\ net'.rx.ret = <<>>
              /\ ~net'.rx.waitingForMessage]_vars

\* C26: a segment that arrives while a header is pending is emitted as the
\* message of that header and the state returns to IDLE with the pending
\* header cleared, except that a header-only packet (9 characters with '0',
\* 11 with '3' at index 8) drops the pending header and is emitted itself;
\* either way one packet is emitted and the state afterwards is IDLE.
C26_RxAwaitMessage ==
  [][\A s \in Segments :
       (Completed(s) /\ net.rx.waitingForMessage) =>
         /\ ~net'.rx.waitingForMessage
         /\ net'.rx.receivedHeader = <<>>
         /\ IF IsInit(s) \/ IsSos(s)
            THEN net'.rx.ret = <<s, <<>>>>
            ELSE net'.rx.ret = <<net.rx.receivedHeader, s>>]_vars

\* The pending header of 15 characters was paired with the 13-character
\* segment that followed it.
C26_Witness ==
  /\ role = "seg"
  /\ op.count = 2
  /\ net.rx.paired
  /\ IsMessage(net.rx.ret[1])
  /\ IsStandard(net.rx.ret[2])
  /\ ~net.rx.waitingForMessage
  /\ net.rx.receivedHeader = <<>>

\* The entry e is due at the reading now of millis(): inside its window,
\* below RETRANSMIT_COUNT, and its next interval has passed.
Due(e, now) ==
  /\ e.active
  /\ now - e.firstSentTime <= REDUNDANCY_WINDOW
  /\ e.sentCount < RETRANSMIT_COUNT
  /\ now - e.firstSentTime >= e.sentCount * RETRANSMIT_INTERVAL

\* One tick of processRetransmitQueue that read now and took lamp L to T.
RetransmitSchedule(L, T, now) ==
  /\ \A i \in Slots :
       LET e == L.retransmitQueue[i] IN
       IF Due(e, now)
       THEN /\ Occurrences(T.retx, i) = 1
            /\ T.retransmitQueue[i] = [e EXCEPT !.sentCount = e.sentCount + 1]
       ELSE /\ Occurrences(T.retx, i) = 0
            /\ (e.active /\ now - e.firstSentTime <= REDUNDANCY_WINDOW) =>
                 T.retransmitQueue[i] = e
            /\ ~e.active => T.retransmitQueue[i] = e
  /\ Len(T.tx) = Len(T.retx)
  /\ \A k \in 1 .. Len(T.tx) :
       LET e == L.retransmitQueue[T.retx[k]] IN
       /\ T.tx[k].header = e.header
       /\ T.tx[k].message = e.message
       /\ T.tx[k].at >= e.firstSentTime + e.sentCount * RETRANSMIT_INTERVAL
  /\ T.enq = <<>>
  /\ T.calls = <<>>
  /\ T.cache = L.cache
  /\ T.cacheIndex = L.cacheIndex

\* C27: on a tick of processRetransmitQueue an active entry inside its window
\* is re-emitted exactly when sentCount < RETRANSMIT_COUNT and now -
\* firstSentTime >= sentCount * RETRANSMIT_INTERVAL, at most once per tick,
\* and sentCount grows by one, so the k-th retransmission is never earlier
\* than k * RETRANSMIT_INTERVAL after firstSentTime; a retransmission goes
\* through irSendRaw: it creates and frees no slot, leaves header, message
\* and firstSentTime alone, and does not touch the dedup cache.
C27_RetransmitSchedule ==
  [][role = "lamp" /\ op'.name = "processRetransmitQueue" =>
       RetransmitSchedule(lamp, lamp', lamp.clock + op'.n)]_vars

\* One tick retransmitted two entries, slot 0 and slot 1, and left alone a
\* third entry.
C27_Witness ==
  /\ role = "lamp"
  /\ op.name = "processRetransmitQueue"
  /\ lamp.retx = <<0, 1>>
  /\ Len(lamp.tx) = 2
  /\ lamp.retransmitQueue[0].sentCount = RETRANSMIT_COUNT
  /\ lamp.retransmitQueue[1].sentCount = RETRANSMIT_COUNT
  /\ lamp.retransmitQueue[2].active
  /\ lamp.retransmitQueue[2].sentCount = 1

\* The inactive slots of lamp L.
FreeSlots(L) == {j \in Slots : ~L.retransmitQueue[j].active}

\* irSend took lamp L to T: one burst, then the entry in the lowest inactive
\* slot and the other slots as they were, or with no inactive slot the whole
\* queue as it was.
QueueFullOrLowest(L, T) ==
  /\ Len(T.tx) = 1
  /\ Len(T.enq) = 1
  /\ T.retx = <<>>
  /\ IF FreeSlots(L) = {}
     THEN /\ T.enq[1] = RETRANSMIT_QUEUE_SIZE
          /\ T.retransmitQueue = L.retransmitQueue
     ELSE /\ T.enq[1] \in FreeSlots(L)
          /\ \A j \in FreeSlots(L) : T.enq[1] <= j
          /\ T.retransmitQueue[T.enq[1]].active
          /\ T.retransmitQueue[T.enq[1]].header = T.tx[1].header
          /\ T.retransmitQueue[T.enq[1]].message = T.tx[1].message
          /\ T.retransmitQueue[T.enq[1]].sentCount = 1
          /\ \A j \in Slots \ {T.enq[1]} :
               T.retransmitQueue[j] = L.retransmitQueue[j]

\* C28: with all RETRANSMIT_QUEUE_SIZE slots active, irSend still makes the
\* first four-direction transmission of the new packet, and
\* addToRetransmitQueue leaves every slot as it was and schedules no retry;
\* with a slot free, the lowest-index inactive slot is the one used.
C28_QueueFull ==
  [][(role = "lamp" /\ op'.name = "forwardPacket" /\ lamp'.tx # <<>>) =>
       QueueFullOrLowest(lamp, lamp')]_vars

\* The lamp forwarded a fourth packet with three active entries: one burst,
\* no slot taken.
C28_Witness ==
  /\ role = "lamp"
  /\ op.name = "forwardPacket"
  /\ Len(lamp.tx) = 1
  /\ lamp.enq = <<RETRANSMIT_QUEUE_SIZE>>
  /\ \A j \in Slots :
       /\ lamp.retransmitQueue[j].active
       /\ lamp.retransmitQueue[j].header # lamp.tx[1].header

\* The number n < 100 in two decimal digits.
TwoDecimal(n) == <<DecDigits[(n \div 10) + 1], DecDigits[(n % 10) + 1]>>

\* The header with its last two characters replaced by the hop msgHop - 1,
\* or 0 for msgHop 0.
WithHopDecremented(header) ==
  SubSeq(header, 1, Len(header) - 2)
    \o TwoDecimal(IF HopOf(header) > 0 THEN HopOf(header) - 1 ELSE 0)

\* C29: a lamp that forwards an SOS or MESSAGE received with hop msgHop
\* emits a header with hop max(msgHop - 1, 0) in two decimal digits and with
\* src, dst, type and (for MESSAGE) the hash field as received; BROADCAST and
\* TARGETED headers are re-emitted unchanged.
C29_ReemittedHeaders ==
  [][(role = "lamp" /\ op'.name = "forwardPacket" /\ lamp'.tx # <<>>
        /\ ~IsInit(op'.header)) =>
       /\ Len(lamp'.tx) = 1
       /\ lamp'.tx[1].message = op'.message
       /\ lamp'.tx[1].header =
            IF IsSos(op'.header) \/ IsMessage(op'.header)
            THEN WithHopDecremented(op'.header)
            ELSE op'.header]_vars

\* A lamp at hop 1 forwarded a MESSAGE received with hop 10 as hop 09, after
\* an INIT of hop 00.
C29_Witness ==
  /\ role = "lamp"
  /\ op.name = "forwardPacket"
  /\ IsMessage(op.header)
  /\ HopOf(op.header) = 10
  /\ lamp.myHop = 1
  /\ Len(lamp.tx) = 1
  /\ SubSeq(lamp.tx[1].header, 14, 15) = <<"0", "9">>
  /\ SubSeq(lamp.tx[1].header, 1, 13) = SubSeq(op.header, 1, 13)

\* The INIT of epoch 01 as HQ sends it, and as a lamp next to HQ passes it on.
HqInit01 == HQ_ID \o <<"0", "1">> \o <<"0", "0">> \o <<MSG_TYPE_INIT>>
LampInit01 == HQ_ID \o <<"0", "1">> \o <<"0", "1">> \o <<MSG_TYPE_INIT>>

\* The lamp that received the INIT header emitted one INIT with the same src
\* and initId and hop = receivedHop + 1, and its myHop is at most that hop.
ReemittedInit(T, header) ==
  /\ Len(T.tx) = 1
  /\ T.tx[1].message = <<>>
  /\ IsInit(T.tx[1].header)
  /\ SrcOf(T.tx[1].header) = SrcOf(header)
  /\ InitIdOf(T.tx[1].header) = InitIdOf(header)
  /\ T.tx[1].header = SrcOf(header) \o InitIdOf(header)
                        \o TwoDecimal((HopOf(header) + 1) % 100)
                        \o <<MSG_TYPE_INIT>>
  /\ HopOf(T.tx[1].header) = HopOf(header) + 1
  /\ T.myHop <= HopOf(header) + 1
  /\ header = HqInit01 =>
       /\ T.tx[1].header = LampInit01
       /\ T.myHop = 1
       /\ T.lastInitID = <<"0", "1">>

\* C30: for every INIT a lamp receives, whether or not it changed the lamp's
\* gradient state, the lamp emits one INIT with the same src and initId and
\* hop = receivedHop + 1, and afterwards myHop <= the hop it emitted; for
\* HQ's INIT of epoch 01 with hop 00 the lamp emits hop 01, its myHop becomes
\* 1 and lastInitID becomes 01.
C30_ReemittedInit ==
  [][InitStep(op') => ReemittedInit(lamp', op'.header)]_vars

\* C30 for received hops below 99.
ReemittedInitBelow99 ==
  [][(InitStep(op') /\ HopOf(op'.header) < 99) =>
       ReemittedInit(lamp', op'.header)]_vars

\* The node received the SOS its neighbour's generateSOS put on the air.
OriginatedSos(o) ==
  /\ role = "modular"
  /\ o.name = "forwardPacket"
  /\ <<o.header, o.message>> \in net.air

\* C31: in the modular variant an SOS originated by generateSOS (message
\* "HELP!", header hash SOS_HASH) passes the integrity check of forwardPacket
\* at a receiving node: the first copy is forwarded, not discarded.
C31_OriginatedSosPasses ==
  [][(OriginatedSos(op')
        /\ ~Holds(lamp.cache, CACHE_SIZE, SrcOf(op'.header), SOS_HASH)) =>
       /\ simpleHash(op'.message) = HashOf(op'.header)
       /\ Len(lamp'.tx) = 1
       /\ lamp'.tx[1].header = op'.header
       /\ lamp'.tx[1].message = op'.message]_vars

\* What the code does with it: the hashes differ and the node does nothing.
OriginatedSosDiscarded ==
  [][OriginatedSos(op') =>
       /\ simpleHash(op'.message) # HashOf(op'.header)
       /\ lamp'.tx = <<>>
       /\ lamp'.cache = lamp.cache
       /\ lamp'.cacheIndex = lamp.cacheIndex]_vars

\* The nodes within d hops of HQ.
RECURSIVE Within(_)
Within(d) ==
  IF d = 0 THEN {"HQ"}
  ELSE Within(d - 1) \cup {m \in MeshNodes : net.links[m] \cap Within(d - 1) # {}}

\* The shortest hop distance of lamp n to HQ.
Distance(n) ==
  CHOOSE d \in 1 .. Cardinality(MeshLamps) :
    n \in Within(d) /\ n \notin Within(d - 1)

\* The largest distance of a lamp to HQ.
Diameter == CHOOSE d \in 1 .. Cardinality(MeshLamps) :
              \A n \in MeshLamps : Distance(n) <= d /\ (\E m \in MeshLamps : Distance(m) = d)

\* One epoch has been started, and no lamp has yet to process a copy of its
\* INIT with a hop field below the largest distance.  (Copies with higher hop
\* fields keep being exchanged and lower no myHop.)
FloodSettled(id) ==
  /\ role = "mesh"
  /\ net.epochs = {id}
  /\ \A m \in MeshLamps : \A k \in 1 .. Len(net.air[m]) :
       HopOf(net.air[m][k][1]) >= Diameter

SosReported ==
  /\ Len(net.reports) = 1
  /\ net.reports[1].src = NODE_ID
  /\ net.reports[1].type = MSG_TYPE_SOS

\* C33: in a mesh whose gradient has converged and where every burst reaches
\* every neighbour, an SOS originated at a lamp is eventually received by HQ,
\* and HQ reports it to the host exactly once while (src, 0) stays in its
\* cache, whatever copies and retransmissions arrive.
C33_SosDelivery ==
  /\ [](Len(net.reports) <= 1)
  /\ [](net.reports # <<>> => Holds(net.hq.cache, HQ_CACHE_SIZE, NODE_ID, 0))
  /\ (net.pressed > 0) ~> SosReported

\* On the line the SOS of B (hop 02) was relayed by A, HQ reported it, and a
\* later copy reached HQ and was not reported again.
C33_Witness ==
  /\ role = "mesh"
  /\ net.links = LineLinks
  /\ net.origin = "B"
  /\ SosReported
  /\ op.name = "processPacket"
  /\ IsSos(op.header)
  /\ net.hq.host = <<>>

\* The number of pairs inserted after the latest insertion of (src, hash);
\* -1 if it was never inserted.
FurtherInserts(ins, src, hash) ==
  LET K == {k \in 1 .. Len(ins) : ins[k].src = src /\ ins[k].hash = hash}
  IN IF K = {} THEN 0 - 1
     ELSE Len(ins) - (CHOOSE k \in K : \A j \in K : j <= k)

\* C34: a pair inserted by isNew stays a duplicate while fewer than
\* CACHE_SIZE further new pairs have been inserted and is new again once
\* CACHE_SIZE further new pairs have been inserted; a call that returns false
\* inserts nothing and moves nothing; so the lamp forwards the same
\* (src, hash) packet again when it returns after three other new packets.
C34_FifoEviction ==
  [][role = "evict" =>
       LET src == SrcOf(op'.header)
           hash == HashOf(op'.header)
           further == FurtherInserts(net.inserted, src, hash)
       IN
       /\ (further >= 0 /\ further < CACHE_SIZE) =>
            /\ lamp'.calls = <<[src |-> src, hash |-> hash, ret |-> FALSE]>>
            /\ lamp'.tx = <<>>
            /\ lamp'.cache = lamp.cache
            /\ lamp'.cacheIndex = lamp.cacheIndex
            /\ net'.inserted = net.inserted
       /\ further >= CACHE_SIZE =>
            /\ lamp'.calls = <<[src |-> src, hash |-> hash, ret |-> TRUE]>>
            /\ Len(lamp'.tx) = 1
            /\ lamp'.tx[1].header = op'.header
            /\ lamp'.tx[1].message = op'.message
       /\ \A k \in 1 .. Len(net'.inserted) :
            LET p == net'.inserted[k] IN
            Holds(lamp'.cache, CACHE_SIZE, p.src, p.hash)
              <=> FurtherInserts(net'.inserted, p.src, p.hash) < CACHE_SIZE]_vars

\* The first broadcast came back after three others and was forwarded again.
C34_Witness ==
  /\ role = "evict"
  /\ Len(net.inserted) = 5
  /\ net.inserted[5] = net.inserted[1]
  /\ \A k \in 2 .. 4 : net.inserted[k] # net.inserted[1]
  /\ Len(lamp.tx) = 1
  /\ lamp.tx[1].header = op.header

\* The lamp has emitted an INIT of epoch id before: it processed one, and
\* adopted the epoch then.
AdoptedEarlier(L, id) ==
  \E i \in Slots :
    /\ IsInit(L.retransmitQueue[i].header)
    /\ InitIdOf(L.retransmitQueue[i].header) = id

\* C35: processInit keeps no epoch history: an INIT whose initId differs from
\* lastInitID is a new epoch even when the lamp adopted that initId earlier;
\* the late copy with hop h sets lastInitID to its initId and myHop to h + 1.
C35_NoEpochHistory ==
  [][(/\ InitStep(op')
      /\ InitIdOf(op'.header) # lamp.lastInitID
      /\ AdoptedEarlier(lamp, InitIdOf(op'.header))) =>
       /\ lamp'.lastInitID = InitIdOf(op'.header)
       /\ lamp'.myHop = HopOf(op'.header) + 1]_vars

\* Epoch 01 at hop 00, epoch 02 at hop 00, then a late copy of epoch 01 with
\* hop 03: the lamp is back in epoch 01 with myHop 4, above the 1 it held.
C35_Witness ==
  /\ role = "lamp"
  /\ op.count = 3
  /\ lamp.retransmitQueue[0].header = InitWith(<<"0", "1">>, <<"0", "1">>)
  /\ lamp.retransmitQueue[1].header = InitWith(<<"0", "2">>, <<"0", "1">>)
  /\ op.header = InitWith(<<"0", "1">>, <<"0", "3">>)
  /\ lamp.lastInitID = <<"0", "1">>
  /\ lamp.myHop = 4

\* All characters of what HQ sent have been handed to irReceive.
AllHeard ==
  /\ role = "e2e"
  /\ op.name = "irReceive"
  /\ net.pending = <<>>

\* irReceive returned one packet: the header and the message HQ sent.
ReassembledOnce ==
  net.packets = << <<hq.tx[1].header, hq.tx[1].message>> >>

\* C36: for every message of 1 to 64 non-space characters, the 13- or
\* 15-character header followed by the message, sent at no less than 100 ms
\* per character, is reassembled by irReceive into one {header, message}
\* packet; the 3000 ms timeout does not drop the header while the message is
\* arriving.
C36_LongReassembly == AllHeard => ReassembledOnce

\* C36 for messages of up to 20 characters.
ShortReassembly ==
  (AllHeard /\ Len(hq.tx[1].message) <= 20) => ReassembledOnce

\* Every burst of the log with a header of 13 or 15 characters has, on each
\* direction, the header segment and then the message segment.
MessageFollows(tx) ==
  \A k \in 1 .. Len(tx) :
    Len(tx[k].header) \in {HEADER_LENGTH_STANDARD, HEADER_LENGTH_MESSAGE} =>
      OnAir(tx[k].header, tx[k].message)
        = WithDelim(tx[k].header) \o WithDelim(tx[k].message)

\* C37: every 13- or 15-character header that irSendRaw puts on a direction
\* is followed on that direction by a message segment, for every message
\* given to sendBroadcast, sendTargeted, sendMessage and the lamp's forward
\* path, the empty message included.
C37_HeaderThenMessage == MessageFollows(lamp.tx) /\ MessageFollows(hq.tx)

\* C37 for messages of at least one character.
NonEmptyMessageFollows ==
  op.message # <<>> => MessageFollows(lamp.tx) /\ MessageFollows(hq.tx)

\* A line of 13 or 15 characters: what irReceive takes for a header.
TwoSegmentHeader(s) ==
  Len(s) \in {HEADER_LENGTH_STANDARD, HEADER_LENGTH_MESSAGE}

\* C38: when header H1 is pending and the segments H2 (13 or 15 characters)
\* and M2 arrive in that order, irReceive emits the pair {H1, H2} and then
\* interprets M2 from IDLE, so {H2, M2} is never emitted; while a header is
\* pending only a 9-character INIT or an 11-character SOS segment is taken
\* for a new packet.
C38_LostMessageCostsNext ==
  [][\A s \in Segments :
       /\ (Completed(s) /\ net.rx.waitingForMessage /\ TwoSegmentHeader(s)) =>
            /\ net'.rx.paired
            /\ net'.rx.ret = <<net.rx.receivedHeader, s>>
            /\ ~net'.rx.waitingForMessage
       /\ (Completed(s) /\ net.rx.paired /\ TwoSegmentHeader(net.rx.ret[2])) =>
            /\ ~net'.rx.paired
            /\ net'.rx.ret # <<net.rx.ret[2], s>>
            /\ net'.rx.ret # <<>> => net'.rx.ret = <<s, <<>>>>
            /\ net'.rx.waitingForMessage <=> TwoSegmentHeader(s)
       /\ (Completed(s) /\ net.rx.waitingForMessage) =>
            ((~net'.rx.paired /\ net'.rx.ret = <<s, <<>>>>)
               <=> (IsInit(s) \/ IsSos(s)))]_vars

\* The pending 13-character header H1 went out paired with the 15-character
\* header H2 that followed it, and irReceive is back in IDLE.
C38_Witness ==
  /\ role = "seg"
  /\ op.count = 2
  /\ net.rx.paired
  /\ IsStandard(net.rx.ret[1])
  /\ IsMessage(net.rx.ret[2])
  /\ net.rx.ret[2] = op.header
  /\ ~net.rx.waitingForMessage

\* C39: the gradient check comes before the dedup check: an SOS or MESSAGE
\* rejected because myHop > msgHop + K makes no isNew call and leaves cache
\* and cacheIndex as they were, so a later copy of the same (src, hash) whose
\* hop field passes the check is new and is forwarded.
C39_GradientBeforeDedup ==
  [][GradientStep(op') =>
       /\ lamp.myHop > HopOf(op'.header) + GRADIENT_TOLERANCE =>
            /\ lamp'.calls = <<>>
            /\ lamp'.cache = lamp.cache
            /\ lamp'.cacheIndex = lamp.cacheIndex
       /\ (/\ lamp.myHop <= HopOf(op'.header) + GRADIENT_TOLERANCE
           /\ ~Holds(lamp.cache, CACHE_SIZE, SrcOf(op'.header),
                     HashOf(op'.header))) =>
            /\ lamp'.calls = <<[src |-> SrcOf(op'.header),
                                hash |-> HashOf(op'.header), ret |-> TRUE]>>
            /\ Len(lamp'.tx) = 1
            /\ lamp'.tx[1].header = WithHopDecremented(op'.header)]_vars

\* A lamp at hop 99 forwarded the SOS of 203b that came with hop 98 as its
\* second packet; the first packet left the cache empty and sent nothing.
C39_Witness ==
  /\ GradientStep(op)
  /\ op.count = 2
  /\ IsSos(op.header)
  /\ HopOf(op.header) = 98
  /\ lamp.myHop = INITIAL_HOP
  /\ lamp.lastInitID = <<>>
  /\ lamp.cacheIndex = 1
  /\ lamp.cache[0] = [src |-> OTHER_ID, msgHash |-> 0]
  /\ Len(lamp.tx) = 1
  /\ lamp.tx[1].at = 0
  /\ lamp.enq = <<0>>

\* The tick of this step read millis() later than REDUNDANCY_WINDOW after
\* the entry e was enqueued.
ExpiryObserved(e) ==
  /\ op'.name = "processRetransmitQueue"
  /\ (lamp.clock + op'.n) - e.firstSentTime > REDUNDANCY_WINDOW

\* C40: a retransmit slot is freed only by window expiry: an active entry,
\* also one whose sentCount has reached RETRANSMIT_COUNT, stays active and
\* keeps its slot until a tick observes now - firstSentTime >
\* REDUNDANCY_WINDOW; so a slot that is free again held an entry older than
\* the window, and a packet sent while all RETRANSMIT_QUEUE_SIZE slots are
\* active gets its first transmission only.
C40_SlotFreedByExpiryOnly ==
  [][role = "lamp" =>
       /\ \A i \in Slots :
            LET e == lamp.retransmitQueue[i]
                f == lamp'.retransmitQueue[i]
            IN /\ (e.active /\ ~f.active) => ExpiryObserved(e)
               /\ (e.active /\ ExpiryObserved(e)) => ~f.active
               /\ (e.active /\ f.active) =>
                    /\ f.header = e.header
                    /\ f.message = e.message
                    /\ f.firstSentTime = e.firstSentTime
               /\ (e.active /\ e.sentCount = RETRANSMIT_COUNT /\ f.active) =>
                    f = e
               /\ (~f.active /\ f.sentCount > 0) =>
                    lamp'.clock - f.firstSentTime > REDUNDANCY_WINDOW
       /\ (/\ op'.name = "forwardPacket"
           /\ lamp'.tx # <<>>
           /\ \A i \in Slots : lamp.retransmitQueue[i].active) =>
            /\ Len(lamp'.tx) = 1
            /\ lamp'.enq = <<RETRANSMIT_QUEUE_SIZE>>
            /\ lamp'.retransmitQueue = lamp.retransmitQueue]_vars

\* The fourth INIT inside one window was sent once and not enqueued: slot 0
\* has been retransmitted RETRANSMIT_COUNT times and is still active.
C40_Witness ==
  /\ role = "lamp"
  /\ op.name = "forwardPacket"
  /\ Len(lamp.tx) = 1
  /\ lamp.enq = <<RETRANSMIT_QUEUE_SIZE>>
  /\ \A i \in Slots : lamp.retransmitQueue[i].active
  /\ lamp.retransmitQueue[0].sentCount = RETRANSMIT_COUNT
  /\ lamp.clock - lamp.retransmitQueue[0].firstSentTime <= REDUNDANCY_WINDOW

====
